---- MODULE Spec2Model ----
(***************************************************************************)
(* MovieRec user-data storage: the three tables of the database setup      *)
(* script (profiles, reviews, user_lists), their constraints, the          *)
(* row-level-security policies, the signup trigger handle_new_user and     *)
(* the ON DELETE CASCADE foreign keys to auth.users.                       *)
(*                                                                         *)
(* Spec     statements of ordinary callers and identity events, each one   *)
(*          executed and committed as one step (autocommit).               *)
(* SpecTxn  the same tables with transactions in flight: an insert or an   *)
(*          identity deletion is issued, executed and committed in         *)
(*          separate steps, other sessions interleaving.                   *)
(*                                                                         *)
(* The web client: the recommendations page (SpecRecommend), the review    *)
(* form and the book page (SpecForms), each handler one step up to its     *)
(* await and one step for the answer.                                      *)
(***************************************************************************)
EXTENDS Naturals, Integers, Sequences, FiniteSets, TLC

VARIABLES
    issued,      \* number of identities auth.users has ever held (ids 1..issued)
    users,       \* auth.users: the ids of the existing identities
    profiles,    \* public.profiles: set of rows [id, username]
    reviews,     \* public.reviews: set of rows
    user_lists,  \* public.user_lists: set of rows
    last,        \* the statement (or identity event) executed last and its result
    txns,        \* SpecTxn: the transaction each session has in flight
    \* the web client: app/recommend/page.tsx
    movies,        \* the movie entries: sequence of [id, title, rating]
    isLoading,     \* a recommendation request is being awaited
    recsError,     \* the page's error message, or Null
    aiResponse,    \* the recommendation text shown
    recsInFlight,  \* recommendation requests sent and not yet answered
    \* the web client: useAuth()
    user,          \* the signed-in user, or Null
    session,       \* the session [access_token], or Null
    route,         \* the page mounted: "/reviews" or "/books/[id]"
    \* the web client: app/reviews/page.tsx
    media,         \* the item under review [id, media_type], or Null
    rating,        \* the stars selected, 0 for none
    reviewText,
    submitting,
    submitted,
    error,         \* the form's error message, or Null
    reviewInFlight,  \* review requests sent and not yet answered
    \* the web client: app/books/[id]/page.tsx
    details,       \* the book shown [id, title], or Null
    adding,        \* per list type: addingToFavorites, addingToReadingList
    added,         \* per list type: addedToFavorites, addedToReadingList
    actionError,   \* the page's action error message, or Null
    actionErrorTimers,  \* timeouts set to clear actionError, not yet fired
    listInFlight,  \* per list type: list requests sent and not yet answered
    sent           \* the request the client has sent last

dbVars == <<issued, users, profiles, reviews, user_lists, last, txns>>
recVars == <<movies, isLoading, recsError, aiResponse, recsInFlight>>
authVars == <<user, session>>
formVars == <<media, rating, reviewText, submitting, submitted, error, reviewInFlight>>
bookVars == <<details, adding, added, actionError, actionErrorTimers, listInFlight>>
webVars == <<recVars, authVars, route, formVars, bookVars, sent>>
vars == <<dbVars, webVars>>

-----------------------------------------------------------------------------
(* Bounds of the model *)

\* identities ever created; ids are never reused, as with UUIDs
MaxIds == 2
\* rows a table holds at most (the pool of generated row ids)
MaxRows == 2

-----------------------------------------------------------------------------
(* Values *)

\* A nullable column holds {} (SQL NULL) or {v}.
Null == {}
Some(v) == {v}
Val(x) == CHOOSE v \in x : TRUE

\* text is a sequence of characters
alice == <<"a", "l", "i", "c", "e">>
bob == <<"b", "o", "b">>
aliceAtExample == alice \o <<"@">> \o <<"e", "x", "a", "m", "p", "l", "e", ".", "c", "o", "m">>
aliceAtOther == alice \o <<"@">> \o <<"o", "t", "h", "e", "r", ".", "o", "r", "g">>
bobAtExample == bob \o <<"@">> \o <<"e", "x", "a", "m", "p", "l", "e", ".", "c", "o", "m">>

\* NEW.email of an identity: NULL for an identity without an email
Emails == {Null, Some(aliceAtExample), Some(aliceAtOther), Some(bobAtExample)}
\* NEW.raw_user_meta_data: a JSON object with or without the key username
Metas == {[full_name |-> alice], [username |-> bob]}

Ids == 1 .. MaxIds
\* auth.uid() of a request that carries no identity (SQL NULL)
NoId == 0
RowIds == 1 .. MaxRows

\* the requesters of the storage layer
Anon == [role |-> "anon", uid |-> NoId]
Authenticated(u) == [role |-> "authenticated", uid |-> u]
\* a token exists only for an identity that was created at some time
\* the backend's caller: the service role, no identity
ServiceRole == [role |-> "service_role", uid |-> NoId]
OrdinaryCallers == {Anon} \cup {Authenticated(u) : u \in 1 .. issued}

\* outcomes of a statement (SQLSTATE classes)
NoError == "none"
UniqueViolation == "unique_violation"
CheckViolation == "check_violation"
ForeignKeyViolation == "foreign_key_violation"
InsufficientPrivilege == "insufficient_privilege"

Result(e, rs) == [err |-> e, rows |-> rs]

-----------------------------------------------------------------------------
(* handle_new_user: the derivation of the username *)

RECURSIVE FirstField(_, _)
\* the characters of s before the first delimiter d (all of s without one)
FirstField(s, d) ==
    IF s = <<>> THEN <<>>
    ELSE IF Head(s) = d THEN <<>>
    ELSE <<Head(s)>> \o FirstField(Tail(s), d)

\* split_part(text, delimiter, 1); NULL on NULL input
split_part(txt, d) == IF txt = Null THEN Null ELSE Some(FirstField(Val(txt), d))

\* json ->> key: the text of the key, NULL when the object has no such key
JsonText(json, key) == IF key \in DOMAIN json THEN Some(json[key]) ELSE Null

COALESCE(a, b) == IF a # Null THEN a ELSE b

\* mutant: the email's local part is preferred to the metadata username
DerivedUsernameEmailFirst(email, meta) ==
    COALESCE(split_part(email, "@"), JsonText(meta, "username"))

\* COALESCE(NEW.raw_user_meta_data->>'username', split_part(NEW.email, '@', 1))
DerivedUsername(email, meta) ==
    COALESCE(JsonText(meta, "username"), split_part(email, "@"))

-----------------------------------------------------------------------------
(* Table constraints *)

\* mutant: profiles.id is not a primary key
PkConflictNever(r, rows) == FALSE

\* UNIQUE / PRIMARY KEY: a row r collides with a stored row on key columns;
\* NULLs never collide
PkConflict(r, rows) == \E o \in rows : o.id = r.id

\* mutant: username is not UNIQUE
UsernameConflictNever(r, rows) == FALSE

\* mutant: two unset usernames collide
UsernameConflictNullsEqual(r, rows) ==
    \E o \in rows : o.id # r.id /\ o.username = r.username

\* username TEXT UNIQUE
UsernameConflict(r, rows) ==
    r.username # Null /\ \E o \in rows : o.id # r.id /\ o.username = r.username

\* mutant: the reference to auth.users is not enforced
FkHoldsAlways(uid, us) == TRUE

\* REFERENCES auth.users(id)
FkHolds(uid, us) == uid \in us

\* mutant: the foreign key of profiles does not cascade
CascadeProfilesKeepsRows(u, rows) == rows

\* mutant: the foreign key of reviews and user_lists does not cascade
CascadeOwnedKeepsRows(u, rows) == rows

\* ON DELETE CASCADE: the rows of a table that survive the deletion of u
CascadeProfiles(u, rows) == {r \in rows : r.id # u}
CascadeOwned(u, rows) == {r \in rows : r.user_id # u}

-----------------------------------------------------------------------------
(* Identity events of the identity provider *)

Event(op, uid, arg, res) ==
    [op |-> op, role |-> "provider", uid |-> uid, arg |-> arg,
     err |-> res.err, rows |-> res.rows]

\* mutant: the trigger function returns without inserting a profile
HandleNewUserNoInsert(newId, email, meta, us, rows) == Result(NoError, {})

\* mutant: the trigger function falls back to an unset username when the
\* derived one is taken
HandleNewUserFallback(newId, email, meta, us, rows) ==
    LET row == [id |-> newId, username |-> DerivedUsername(email, meta)]
    IN  IF PkConflict(row, rows) THEN Result(UniqueViolation, {})
        ELSE IF UsernameConflict(row, rows)
             THEN Result(NoError, {[id |-> newId, username |-> Null]})
        ELSE IF ~FkHolds(row.id, us) THEN Result(ForeignKeyViolation, {})
        ELSE Result(NoError, {row})

\* the INSERT of handle_new_user, run with the definer's rights
HandleNewUser(newId, email, meta, us, rows) ==
    LET row == [id |-> newId, username |-> DerivedUsername(email, meta)]
    IN  IF PkConflict(row, rows) THEN Result(UniqueViolation, {})
        ELSE IF UsernameConflict(row, rows) THEN Result(UniqueViolation, {})
        ELSE IF ~FkHolds(row.id, us) THEN Result(ForeignKeyViolation, {})
        ELSE Result(NoError, {row})

\* mutant: the identity is kept when the trigger fails (provisioning outside
\* the signup transaction)
CreateIdentityKeepsUser(email, meta) ==
    /\ issued < MaxIds
    /\ LET newId == issued + 1
           res == HandleNewUser(newId, email, meta, users \cup {newId}, profiles)
       IN  /\ issued' = newId
           /\ users' = users \cup {newId}
           /\ profiles' = profiles \cup res.rows
           /\ last' = Event("create_identity", newId,
                            [email |-> email, meta |-> meta], res)
    /\ UNCHANGED <<reviews, user_lists, txns, webVars>>

\* INSERT INTO auth.users fires on_auth_user_created in the same transaction:
\* an error of the trigger aborts the insert
CreateIdentity(email, meta) ==
    /\ issued < MaxIds
    /\ LET newId == issued + 1
           res == HandleNewUser(newId, email, meta, users \cup {newId}, profiles)
       IN  /\ issued' = IF res.err = NoError THEN newId ELSE issued
           /\ users' = IF res.err = NoError THEN users \cup {newId} ELSE users
           /\ profiles' = profiles \cup res.rows
           /\ last' = Event("create_identity", newId,
                            [email |-> email, meta |-> meta], res)
    /\ UNCHANGED <<reviews, user_lists, txns, webVars>>

\* DELETE FROM auth.users WHERE id = u, with the cascades of the three
\* foreign keys
DeleteIdentity(u) ==
    /\ u \in users
    /\ users' = users \ {u}
    /\ profiles' = CascadeProfiles(u, profiles)
    /\ reviews' = CascadeOwned(u, reviews)
    /\ user_lists' = CascadeOwned(u, user_lists)
    /\ last' = Event("delete_identity", u, [id |-> u],
                     Result(NoError, (profiles \ profiles') \cup (reviews \ reviews')
                                         \cup (user_lists \ user_lists')))
    /\ UNCHANGED <<issued, txns, webVars>>

-----------------------------------------------------------------------------
(* Row-level security and table privileges *)

Tables == {"profiles", "reviews", "user_lists"}

\* GRANT ALL ... TO authenticated / service_role; the anon role holds the
\* platform's default privileges on the tables of schema public
TablePrivilege(role, tbl) ==
    role \in {"anon", "authenticated", "service_role"} /\ tbl \in Tables

\* ALTER TABLE ... ENABLE ROW LEVEL SECURITY
RlsEnabled(tbl) == tbl \in Tables

\* mutant: a policy of (tbl, cmd) with USING (true) is added
WithOpenPolicy(ps, tbl, cmd) == ps \cup {[tbl |-> tbl, cmd |-> cmd, expr |-> "true"]}

\* CREATE POLICY ... : expr "true" is USING (true), expr "owner" is
\* auth.uid() = <owner column>; an UPDATE policy without WITH CHECK applies
\* its USING expression to the new row as well
Policies ==
    { [tbl |-> "profiles",   cmd |-> "SELECT", expr |-> "true"],
      [tbl |-> "profiles",   cmd |-> "UPDATE", expr |-> "owner"],
      [tbl |-> "profiles",   cmd |-> "INSERT", expr |-> "owner"],
      [tbl |-> "reviews",    cmd |-> "SELECT", expr |-> "true"],
      [tbl |-> "reviews",    cmd |-> "INSERT", expr |-> "owner"],
      [tbl |-> "reviews",    cmd |-> "UPDATE", expr |-> "owner"],
      [tbl |-> "reviews",    cmd |-> "DELETE", expr |-> "owner"],
      [tbl |-> "user_lists", cmd |-> "SELECT", expr |-> "owner"],
      [tbl |-> "user_lists", cmd |-> "INSERT", expr |-> "owner"],
      [tbl |-> "user_lists", cmd |-> "UPDATE", expr |-> "owner"],
      [tbl |-> "user_lists", cmd |-> "DELETE", expr |-> "owner"] }

\* the column the owner predicate compares with auth.uid()
OwnerOf(tbl, row) == IF tbl = "profiles" THEN row.id ELSE row.user_id

\* auth.uid() = x; with no identity auth.uid() is NULL and the comparison is
\* not true
AuthUidIs(c, x) == c.uid # NoId /\ c.uid = x

\* the service role bypasses row-level security
BypassRls(c) == c.role = "service_role"

\* the permissive policies ps of (tbl, cmd) are OR-ed; with none the row is
\* denied
PassesUnder(ps, c, tbl, cmd, row) ==
    \/ ~RlsEnabled(tbl)
    \/ BypassRls(c)
    \/ \E p \in ps :
          /\ p.tbl = tbl
          /\ p.cmd = cmd
          /\ (p.expr = "true" \/ AuthUidIs(c, OwnerOf(tbl, row)))

\* mutant: the UPDATE and DELETE policies of reviews lack the owner predicate
PolicyPassesReviewsWritable(c, tbl, cmd, row) ==
    PassesUnder(WithOpenPolicy(WithOpenPolicy(Policies, "reviews", "UPDATE"),
                               "reviews", "DELETE"), c, tbl, cmd, row)

\* mutant: the SELECT policy of user_lists is USING (true)
PolicyPassesListsPublic(c, tbl, cmd, row) ==
    PassesUnder(WithOpenPolicy(Policies, "user_lists", "SELECT"), c, tbl, cmd, row)

\* mutant: the SELECT policy of reviews is the owner predicate
PolicyPassesReviewsPrivate(c, tbl, cmd, row) ==
    PassesUnder((Policies \ {[tbl |-> "reviews", cmd |-> "SELECT", expr |-> "true"]})
                    \cup {[tbl |-> "reviews", cmd |-> "SELECT", expr |-> "owner"]},
                c, tbl, cmd, row)

\* mutant: the INSERT policies are WITH CHECK (true)
PolicyPassesInsertOpen(c, tbl, cmd, row) ==
    PassesUnder(WithOpenPolicy(WithOpenPolicy(WithOpenPolicy(Policies,
                    "profiles", "INSERT"), "reviews", "INSERT"), "user_lists", "INSERT"),
                c, tbl, cmd, row)

\* mutant: a command on a table without a policy for it is allowed
PolicyPassesDefaultAllow(c, tbl, cmd, row) ==
    \/ PassesUnder(Policies, c, tbl, cmd, row)
    \/ \A p \in Policies : ~(p.tbl = tbl /\ p.cmd = cmd)

\* mutant: the UPDATE policy of profiles lacks the owner predicate
PolicyPassesProfilesWritable(c, tbl, cmd, row) ==
    PassesUnder(WithOpenPolicy(Policies, "profiles", "UPDATE"), c, tbl, cmd, row)

\* the row passes the policies the script creates for (tbl, cmd)
PolicyPasses(c, tbl, cmd, row) == PassesUnder(Policies, c, tbl, cmd, row)

-----------------------------------------------------------------------------
(* Constraints of reviews and user_lists *)

MinRating == 1
MaxRating == 10
MediaTypes == {"movie", "book", "show"}
ListTypes == {"watchlist", "favorites", "reading_list", "completed"}

\* mutant: no CHECK constraint on media_type and list_type
CheckHoldsRatingOnly(tbl, row) ==
    tbl = "reviews" => (row.rating >= MinRating /\ row.rating <= MaxRating)

\* mutant: no CHECK constraint on rating
CheckHoldsEnumsOnly(tbl, row) ==
    CASE tbl = "reviews" -> row.media_type \in MediaTypes
      [] tbl = "user_lists" -> row.list_type \in ListTypes /\ row.media_type \in MediaTypes
      [] OTHER -> TRUE

\* the CHECK constraints of a table
CheckHolds(tbl, row) ==
    CASE tbl = "reviews" ->
            /\ row.media_type \in MediaTypes
            /\ row.rating >= MinRating /\ row.rating <= MaxRating
      [] tbl = "user_lists" ->
            /\ row.list_type \in ListTypes
            /\ row.media_type \in MediaTypes
      [] OTHER -> TRUE

\* mutant: the unique constraint of user_lists leaves out list_type
ListKeyWithoutType(r) == <<r.user_id, r.media_type, r.media_id>>

ReviewKey(r) == <<r.user_id, r.media_type, r.media_id>>
ListKey(r) == <<r.user_id, r.list_type, r.media_type, r.media_id>>

\* mutant: only the primary keys are enforced
UniqueConflictPkOnly(tbl, row, others) == PkConflict(row, others)

\* PRIMARY KEY and UNIQUE constraints of a table against the other rows
UniqueConflict(tbl, row, others) ==
    CASE tbl = "profiles" ->
            PkConflict(row, others) \/ UsernameConflict(row, others)
      [] tbl = "reviews" ->
            PkConflict(row, others)
            \/ \E o \in others : ReviewKey(o) = ReviewKey(row)
      [] tbl = "user_lists" ->
            PkConflict(row, others)
            \/ \E o \in others : ListKey(o) = ListKey(row)

\* DEFAULT gen_random_uuid(): an id no row of the table has
UsedIds(rows) == {r.id : r \in rows}
FreshId(rows) ==
    CHOOSE i \in RowIds \ UsedIds(rows) : \A j \in RowIds \ UsedIds(rows) : i <= j
HasFreshId(rows) == RowIds \ UsedIds(rows) # {}

-----------------------------------------------------------------------------
(* Execution of one statement: privilege, policy, constraints *)

\* INSERT INTO tbl VALUES (row)
ExecInsert(c, tbl, row, rows, us) ==
    IF ~TablePrivilege(c.role, tbl) THEN Result(InsufficientPrivilege, {})
    ELSE IF ~PolicyPasses(c, tbl, "INSERT", row) THEN Result(InsufficientPrivilege, {})
    ELSE IF ~CheckHolds(tbl, row) THEN Result(CheckViolation, {})
    ELSE IF UniqueConflict(tbl, row, rows) THEN Result(UniqueViolation, {})
    ELSE IF ~FkHolds(OwnerOf(tbl, row), us) THEN Result(ForeignKeyViolation, {})
    ELSE Result(NoError, {row})

\* the rows a statement of the caller with WHERE id = target can see and touch
Targets(c, tbl, cmd, target, rows) ==
    {r \in rows : /\ r.id = target
                  /\ PolicyPasses(c, tbl, "SELECT", r)
                  /\ PolicyPasses(c, tbl, cmd, r)}

\* SELECT * FROM tbl WHERE id = target
ExecSelect(c, tbl, target, rows) ==
    IF ~TablePrivilege(c.role, tbl) THEN Result(InsufficientPrivilege, {})
    ELSE Result(NoError, Targets(c, tbl, "SELECT", target, rows))

\* the row with the columns of set assigned
Assign(row, set) ==
    [col \in DOMAIN row |-> IF col \in DOMAIN set THEN set[col] ELSE row[col]]

\* mutant: an update is not held to the CHECK and UNIQUE constraints
ExecUpdateNoConstraints(c, tbl, target, set, rows, us) ==
    IF ~TablePrivilege(c.role, tbl) THEN Result(InsufficientPrivilege, {})
    ELSE LET old == Targets(c, tbl, "UPDATE", target, rows)
             new == {Assign(r, set) : r \in old}
         IN  IF \E n \in new : ~PolicyPasses(c, tbl, "UPDATE", n)
                THEN Result(InsufficientPrivilege, {})
             ELSE Result(NoError, new)

\* mutant: the UPDATE policy is not applied to the new version of the row
ExecUpdateNoNewRowPolicy(c, tbl, target, set, rows, us) ==
    IF ~TablePrivilege(c.role, tbl) THEN Result(InsufficientPrivilege, {})
    ELSE LET old == Targets(c, tbl, "UPDATE", target, rows)
             new == {Assign(r, set) : r \in old}
         IN  IF \E n \in new : ~CheckHolds(tbl, n)
                THEN Result(CheckViolation, {})
             ELSE IF \E n \in new : UniqueConflict(tbl, n, rows \ old)
                THEN Result(UniqueViolation, {})
             ELSE IF \E n \in new : ~FkHolds(OwnerOf(tbl, n), us)
                THEN Result(ForeignKeyViolation, {})
             ELSE Result(NoError, new)

\* UPDATE tbl SET set WHERE id = target; rows is the table before, the result
\* holds the new versions of the rows updated
ExecUpdate(c, tbl, target, set, rows, us) ==
    IF ~TablePrivilege(c.role, tbl) THEN Result(InsufficientPrivilege, {})
    ELSE LET old == Targets(c, tbl, "UPDATE", target, rows)
             new == {Assign(r, set) : r \in old}
         IN  IF \E n \in new : ~PolicyPasses(c, tbl, "UPDATE", n)
                THEN Result(InsufficientPrivilege, {})
             ELSE IF \E n \in new : ~CheckHolds(tbl, n)
                THEN Result(CheckViolation, {})
             ELSE IF \E n \in new : UniqueConflict(tbl, n, rows \ old)
                THEN Result(UniqueViolation, {})
             ELSE IF \E n \in new : ~FkHolds(OwnerOf(tbl, n), us)
                THEN Result(ForeignKeyViolation, {})
             ELSE Result(NoError, new)

\* mutant: a delete aimed at a row the policies hide fails with an error
ExecDeleteDeniesHidden(c, tbl, target, rows) ==
    IF ~TablePrivilege(c.role, tbl) THEN Result(InsufficientPrivilege, {})
    ELSE IF \E r \in rows : r.id = target /\ ~PolicyPasses(c, tbl, "DELETE", r)
       THEN Result(InsufficientPrivilege, {})
    ELSE Result(NoError, Targets(c, tbl, "DELETE", target, rows))

\* DELETE FROM tbl WHERE id = target; the result holds the rows deleted
ExecDelete(c, tbl, target, rows) ==
    IF ~TablePrivilege(c.role, tbl) THEN Result(InsufficientPrivilege, {})
    ELSE Result(NoError, Targets(c, tbl, "DELETE", target, rows))

\* the table after a statement with result res that touched the rows old
AfterUpdate(target, rows, res) ==
    IF res.err = NoError /\ res.rows # {}
       THEN {r \in rows : r.id # target} \cup res.rows
       ELSE rows

Stmt(op, c, arg, res) ==
    [op |-> op, role |-> c.role, uid |-> c.uid, arg |-> arg,
     err |-> res.err, rows |-> res.rows]

-----------------------------------------------------------------------------
(* Inputs of the statements *)

UsernameInputs == {Null, Some(alice), Some(bob)}
MediaTypeInputs == {"movie", "book", "podcast"}
MediaIdInputs == {"27205"}
RatingInputs == {0, 1, 10, 11}
TextInputs == {Some("great")}
ListTypeInputs == {"watchlist", "favorites", "archive"}
TitleInputs == {"Inception"}

ProfileSets ==
    {[username |-> x] : x \in UsernameInputs} \cup {[id |-> i] : i \in Ids}
ReviewSets ==
    {[rating |-> x] : x \in RatingInputs}
    \cup {[review_text |-> x] : x \in TextInputs}
    \cup {[media_type |-> x] : x \in MediaTypeInputs}
    \cup {[user_id |-> x] : x \in Ids}
ListSets ==
    {[list_type |-> x] : x \in ListTypeInputs}
    \cup {[media_type |-> x] : x \in MediaTypeInputs}
    \cup {[user_id |-> x] : x \in Ids}

\* the id column of a new row: the generated default
NewId(rows) == IF HasFreshId(rows) THEN FreshId(rows) ELSE 0

-----------------------------------------------------------------------------
(* Statements on profiles *)

InsertProfile(c, id, username) ==
    LET row == [id |-> id, username |-> username]
        res == ExecInsert(c, "profiles", row, profiles, users)
    IN  /\ profiles' = profiles \cup res.rows
        /\ last' = Stmt("insert_profile", c, [id |-> id], res)
        /\ UNCHANGED <<issued, users, reviews, user_lists, txns, webVars>>

UpdateProfile(c, target, set) ==
    LET res == ExecUpdate(c, "profiles", target, set, profiles, users)
    IN  /\ profiles' = AfterUpdate(target, profiles, res)
        /\ last' = Stmt("update_profile", c, [id |-> target], res)
        /\ UNCHANGED <<issued, users, reviews, user_lists, txns, webVars>>

DeleteProfile(c, target) ==
    LET res == ExecDelete(c, "profiles", target, profiles)
    IN  /\ profiles' = profiles \ res.rows
        /\ last' = Stmt("delete_profile", c, [id |-> target], res)
        /\ UNCHANGED <<issued, users, reviews, user_lists, txns, webVars>>

SelectProfile(c, target) ==
    LET res == ExecSelect(c, "profiles", target, profiles)
    IN  /\ last' = Stmt("select_profile", c, [id |-> target], res)
        /\ UNCHANGED <<issued, users, profiles, reviews, user_lists, txns, webVars>>

-----------------------------------------------------------------------------
(* Statements on reviews *)

InsertReview(c, uid, mt, mid, rt, text) ==
    LET row == [id |-> NewId(reviews), user_id |-> uid, media_type |-> mt,
                media_id |-> mid, rating |-> rt, review_text |-> text]
        res == ExecInsert(c, "reviews", row, reviews, users)
    IN  /\ res.err = NoError => HasFreshId(reviews)
        /\ reviews' = reviews \cup res.rows
        /\ last' = Stmt("insert_review", c,
                        [user_id |-> uid, media_type |-> mt, media_id |-> mid,
                         rating |-> rt], res)
        /\ UNCHANGED <<issued, users, profiles, user_lists, txns, webVars>>

UpdateReview(c, target, set) ==
    LET res == ExecUpdate(c, "reviews", target, set, reviews, users)
    IN  /\ reviews' = AfterUpdate(target, reviews, res)
        /\ last' = Stmt("update_review", c, [id |-> target], res)
        /\ UNCHANGED <<issued, users, profiles, user_lists, txns, webVars>>

DeleteReview(c, target) ==
    LET res == ExecDelete(c, "reviews", target, reviews)
    IN  /\ reviews' = reviews \ res.rows
        /\ last' = Stmt("delete_review", c, [id |-> target], res)
        /\ UNCHANGED <<issued, users, profiles, user_lists, txns, webVars>>

SelectReview(c, target) ==
    LET res == ExecSelect(c, "reviews", target, reviews)
    IN  /\ last' = Stmt("select_review", c, [id |-> target], res)
        /\ UNCHANGED <<issued, users, profiles, reviews, user_lists, txns, webVars>>

-----------------------------------------------------------------------------
(* Statements on user_lists *)

InsertListItem(c, uid, lt, mt, mid, title) ==
    LET row == [id |-> NewId(user_lists), user_id |-> uid, list_type |-> lt,
                media_type |-> mt, media_id |-> mid, title |-> title]
        res == ExecInsert(c, "user_lists", row, user_lists, users)
    IN  /\ res.err = NoError => HasFreshId(user_lists)
        /\ user_lists' = user_lists \cup res.rows
        /\ last' = Stmt("insert_list_item", c,
                        [user_id |-> uid, list_type |-> lt, media_type |-> mt,
                         media_id |-> mid], res)
        /\ UNCHANGED <<issued, users, profiles, reviews, txns, webVars>>

UpdateListItem(c, target, set) ==
    LET res == ExecUpdate(c, "user_lists", target, set, user_lists, users)
    IN  /\ user_lists' = AfterUpdate(target, user_lists, res)
        /\ last' = Stmt("update_list_item", c, [id |-> target], res)
        /\ UNCHANGED <<issued, users, profiles, reviews, txns, webVars>>

DeleteListItem(c, target) ==
    LET res == ExecDelete(c, "user_lists", target, user_lists)
    IN  /\ user_lists' = user_lists \ res.rows
        /\ last' = Stmt("delete_list_item", c, [id |-> target], res)
        /\ UNCHANGED <<issued, users, profiles, reviews, txns, webVars>>

SelectListItem(c, target) ==
    LET res == ExecSelect(c, "user_lists", target, user_lists)
    IN  /\ last' = Stmt("select_list_item", c, [id |-> target], res)
        /\ UNCHANGED <<issued, users, profiles, reviews, user_lists, txns, webVars>>

\* one statement of an ordinary caller on each table
ProfileStatement(c) ==
    \/ \E i \in Ids, x \in UsernameInputs : InsertProfile(c, i, x)
    \/ \E i \in Ids, set \in ProfileSets : UpdateProfile(c, i, set)
    \/ \E i \in Ids : DeleteProfile(c, i)
    \/ \E i \in Ids : SelectProfile(c, i)

ReviewStatement(c) ==
    \/ \E u \in Ids, mt \in MediaTypeInputs, mid \in MediaIdInputs,
          x \in RatingInputs, t \in TextInputs : InsertReview(c, u, mt, mid, x, t)
    \/ \E i \in RowIds, set \in ReviewSets : UpdateReview(c, i, set)
    \/ \E i \in RowIds : DeleteReview(c, i)
    \/ \E i \in RowIds : SelectReview(c, i)

ListStatement(c) ==
    \/ \E u \in Ids, lt \in ListTypeInputs, mt \in MediaTypeInputs,
          mid \in MediaIdInputs, t \in TitleInputs : InsertListItem(c, u, lt, mt, mid, t)
    \/ \E i \in RowIds, set \in ListSets : UpdateListItem(c, i, set)
    \/ \E i \in RowIds : DeleteListItem(c, i)
    \/ \E i \in RowIds : SelectListItem(c, i)

\* an event of the identity provider, the new identity's email and metadata
\* drawn from es and ms
IdentityEvent(es, ms) ==
    \/ \E e \in es, m \in ms : CreateIdentity(e, m)
    \/ \E u \in Ids : DeleteIdentity(u)

\* the identities of the table slices: no email, no metadata username (their
\* profiles carry no username)
SliceEmails == {Null}
SliceMetas == {[full_name |-> alice]}

-----------------------------------------------------------------------------

(* The web client: the recommendations page (app/recommend/page.tsx) *)

\* movie entries the page holds at most
MaxMovies == 3
\* recommendation requests in flight at most
MaxPending == 2

DefaultRating == 5
MinimumMovies == 3

\* String.prototype.trim on a text of blanks and letters
RECURSIVE TrimStart(_)
TrimStart(t) == IF t # <<>> /\ Head(t) = " " THEN TrimStart(Tail(t)) ELSE t
RECURSIVE TrimEnd(_)
TrimEnd(t) ==
    IF t # <<>> /\ t[Len(t)] = " " THEN TrimEnd(SubSeq(t, 1, Len(t) - 1)) ELSE t
trim(t) == TrimEnd(TrimStart(t))

\* what the user types into a title field and picks as a rating
MovieTitles == {<<" ">>, <<" ", "U", "p", " ">>}
SliderMax == 10
MovieRatings == {SliderMax}

NewMovie(id) == [id |-> id, title |-> <<>>, rating |-> DefaultRating]
InitialMovies == <<NewMovie(1), NewMovie(2), NewMovie(3)>>

\* the lists the book page adds to
BookListTypes == {"favorites", "reading_list"}

NoRequest == [url |-> "none"]
Request(url, token, body) == [url |-> url, token |-> token, body |-> body]

addMovieField ==
    /\ Len(movies) < MaxMovies
    /\ movies' = Append(movies, NewMovie(Len(movies) + 1))
    /\ UNCHANGED <<isLoading, recsError, aiResponse, recsInFlight>>
    /\ UNCHANGED <<dbVars, authVars, route, formVars, bookVars, sent>>

removeMovieField(id) ==
    /\ movies' = IF Len(movies) > 1
                    THEN SelectSeq(movies, LAMBDA movie : movie.id # id)
                    ELSE movies
    /\ UNCHANGED <<isLoading, recsError, aiResponse, recsInFlight>>
    /\ UNCHANGED <<dbVars, authVars, route, formVars, bookVars, sent>>

updateMovie(id, field, value) ==
    /\ movies' = [i \in DOMAIN movies |->
                     IF movies[i].id = id THEN [movies[i] EXCEPT ![field] = value]
                                          ELSE movies[i]]
    /\ UNCHANGED <<isLoading, recsError, aiResponse, recsInFlight>>
    /\ UNCHANGED <<dbVars, authVars, route, formVars, bookVars, sent>>

validMovies == SelectSeq(movies, LAMBDA movie : trim(movie.title) # <<>>)
hasMinimumMovies == Len(validMovies) >= MinimumMovies

\* up to the await of fetch: the request leaves
getRecommendations ==
    /\ recsInFlight < MaxPending
    /\ isLoading' = TRUE
    /\ recsError' = Null
    /\ sent' = Request("/api/recs", Null,
                       [movies |-> [i \in DOMAIN validMovies |->
                                       [title |-> validMovies[i].title,
                                        rating |-> validMovies[i].rating]]])
    /\ recsInFlight' = recsInFlight + 1
    /\ UNCHANGED <<movies, aiResponse>>
    /\ UNCHANGED <<dbVars, authVars, route, formVars, bookVars>>

\* after the await: the answer of the endpoint, or the failure of fetch
RecommendationTexts == {"", "Watch Coco"}
getRecommendationsAnswered(ok, recommendation) ==
    /\ recsInFlight > 0
    /\ recsInFlight' = recsInFlight - 1
    /\ IF ok
          THEN /\ aiResponse' = IF recommendation # "" THEN recommendation
                                ELSE "No recommendations received"
               /\ UNCHANGED recsError
          ELSE /\ recsError' = Some("Failed to fetch")
               /\ UNCHANGED aiResponse
    /\ isLoading' = FALSE
    /\ UNCHANGED movies
    /\ UNCHANGED <<dbVars, authVars, route, formVars, bookVars, sent>>

retryRecommendation == getRecommendations

isGetButtonDisabled == isLoading \/ ~hasMinimumMovies

\* the button "Get AI Recommendations"; a disabled button takes no click
ClickGetRecommendations == ~isGetButtonDisabled /\ getRecommendations

\* the button "Retry"
ClickRetry == retryRecommendation

NextRecommend ==
    \/ addMovieField
    \/ \E i \in DOMAIN movies : removeMovieField(movies[i].id)
    \/ \E i \in DOMAIN movies, t \in MovieTitles : updateMovie(movies[i].id, "title", t)
    \/ \E i \in DOMAIN movies, x \in MovieRatings : updateMovie(movies[i].id, "rating", x)
    \/ ClickGetRecommendations
    \/ ClickRetry
    \/ \E ok \in BOOLEAN, t \in RecommendationTexts : getRecommendationsAnswered(ok, t)

-----------------------------------------------------------------------------
(* The web client: the review form (app/reviews/page.tsx) and the book page  *)
(* (app/books/[id]/page.tsx).  One page is mounted at a time; opening a page *)
(* mounts it with its initial state, and what an unmounted page was awaiting *)
(* has no effect any more.                                                   *)

\* timeouts set to clear actionError and not yet fired, at most
MaxTimers == 2

MaxStars == 5

\* a JavaScript number or string
Num(n) == [num |-> n]
Str(t) == [str |-> t]

\* the decimal digits of a natural number
RECURSIVE Decimal(_)
Decimal(n) ==
    LET digit == <<"0", "1", "2", "3", "4", "5", "6", "7", "8", "9">>[(n % 10) + 1]
    IN  IF n < 10 THEN <<digit>> ELSE Append(Decimal(n \div 10), digit)

\* String(value)
String(v) == IF "num" \in DOMAIN v THEN Decimal(v.num) ELSE v.str

\* what useAuth() may return
AuthUsers == {Null, Some(alice)}
AuthSessions == {Null, Some([access_token |-> ""]), Some([access_token |-> "jwt"])}

\* the media items a search result or a detail page's link brings to the
\* form: a movie, a TV show, a book
MediaItems ==
    {[id |-> Num(27), media_type |-> "movie"], [id |-> Num(27), media_type |-> "tv"],
     [id |-> Str(<<"O", "L", "1", "W">>), media_type |-> "book"]}
ReviewTexts == {"", "great"}
Books == {[id |-> <<"O", "L", "1", "W">>, title |-> "Dune", cover_url |-> Null]}
Routes == {"/reviews", "/books/[id]"}

\* the AuthContext changes the user and the session
useAuth(u, s) ==
    /\ user' = u
    /\ session' = s
    /\ UNCHANGED <<dbVars, recVars, route, formVars, bookVars, sent>>

\* a page is opened
navigate(to) ==
    /\ route' = to
    /\ media' = Null
    /\ rating' = 0
    /\ reviewText' = ""
    /\ submitting' = FALSE
    /\ submitted' = FALSE
    /\ error' = Null
    /\ reviewInFlight' = 0
    /\ details' = Null
    /\ adding' = [lt \in BookListTypes |-> FALSE]
    /\ added' = [lt \in BookListTypes |-> FALSE]
    /\ actionError' = Null
    /\ actionErrorTimers' = 0
    /\ listInFlight' = [lt \in BookListTypes |-> 0]
    /\ UNCHANGED <<dbVars, recVars, authVars, sent>>

\* mutant: an empty access token counts as credentials
signedInAnyToken == user # Null /\ session # Null

\* !(!user || !session?.access_token)
signedIn == user # Null /\ session # Null /\ Val(session).access_token # ""

\* the effect on the URL's id and type, once the item is fetched
fetchMedia(item) ==
    /\ route = "/reviews"
    /\ media = Null
    /\ media' = Some(item)
    /\ UNCHANGED <<rating, reviewText, submitting, submitted, error, reviewInFlight>>
    /\ UNCHANGED <<dbVars, recVars, authVars, route, bookVars, sent>>

\* a search result is clicked (the results are shown while no item is selected)
selectMedia(item) ==
    /\ route = "/reviews"
    /\ media = Null
    /\ media' = Some(item)
    /\ UNCHANGED <<rating, reviewText, submitting, submitted, error, reviewInFlight>>
    /\ UNCHANGED <<dbVars, recVars, authVars, route, bookVars, sent>>

\* the button "Change selection"
changeSelection ==
    /\ route = "/reviews"
    /\ media # Null
    /\ media' = Null
    /\ UNCHANGED <<rating, reviewText, submitting, submitted, error, reviewInFlight>>
    /\ UNCHANGED <<dbVars, recVars, authVars, route, bookVars, sent>>

\* a star button is clicked
setRating(star) ==
    /\ route = "/reviews"
    /\ media # Null
    /\ rating' = star
    /\ UNCHANGED <<media, reviewText, submitting, submitted, error, reviewInFlight>>
    /\ UNCHANGED <<dbVars, recVars, authVars, route, bookVars, sent>>

setReviewText(t) ==
    /\ route = "/reviews"
    /\ media # Null
    /\ reviewText' = t
    /\ UNCHANGED <<media, rating, submitting, submitted, error, reviewInFlight>>
    /\ UNCHANGED <<dbVars, recVars, authVars, route, bookVars, sent>>

\* mutant: the stars are sent as they are
ReviewRequestInStars ==
    Request("/api/user/reviews", Val(session).access_token,
            [media_type |-> Val(media).media_type,
             media_id |-> String(Val(media).id),
             rating |-> rating,
             review_text |-> IF reviewText # "" THEN Some(reviewText) ELSE Null])

\* the POST of handleSubmit
ReviewRequest ==
    Request("/api/user/reviews", Val(session).access_token,
            [media_type |-> Val(media).media_type,
             media_id |-> String(Val(media).id),
             rating |-> rating * 2,
             review_text |-> IF reviewText # "" THEN Some(reviewText) ELSE Null])

\* up to the await of fetch
handleSubmit ==
    /\ IF media = Null \/ rating = 0
          THEN /\ error' = Some("Please select a rating")
               /\ UNCHANGED <<submitting, reviewInFlight, sent>>
          ELSE IF ~signedIn
          THEN /\ error' = Some("Please sign in to submit a review")
               /\ UNCHANGED <<submitting, reviewInFlight, sent>>
          ELSE /\ submitting' = TRUE
               /\ error' = Null
               /\ sent' = ReviewRequest
               /\ reviewInFlight' = reviewInFlight + 1
    /\ UNCHANGED <<media, rating, reviewText, submitted>>
    /\ UNCHANGED <<dbVars, recVars, authVars, route, bookVars>>

\* after the await: the answer, and on success the timeout that resets the form
handleSubmitAnswered(ok) ==
    /\ reviewInFlight > 0
    /\ reviewInFlight' = reviewInFlight - 1
    /\ IF ok THEN submitted' = TRUE /\ UNCHANGED error
             ELSE /\ error' = Some("Failed to submit review. Please try again.")
                  /\ UNCHANGED submitted
    /\ submitting' = FALSE
    /\ UNCHANGED <<media, rating, reviewText>>
    /\ UNCHANGED <<dbVars, recVars, authVars, route, bookVars, sent>>

\* the timeout set on success fires
ResetForm ==
    /\ submitted
    /\ rating' = 0
    /\ reviewText' = ""
    /\ submitted' = FALSE
    /\ UNCHANGED <<media, submitting, error, reviewInFlight>>
    /\ UNCHANGED <<dbVars, recVars, authVars, route, bookVars, sent>>

\* the submit button, shown with the form of a selected item
ClickSubmit ==
    /\ route = "/reviews"
    /\ media # Null
    /\ ~(submitting \/ submitted \/ rating = 0)
    /\ handleSubmit

\* the effect on the URL's id, once the book is fetched
fetchDetails(d) ==
    /\ route = "/books/[id]"
    /\ details = Null
    /\ details' = Some(d)
    /\ UNCHANGED <<adding, added, actionError, actionErrorTimers, listInFlight>>
    /\ UNCHANGED <<dbVars, recVars, authVars, route, formVars, sent>>

\* lib/fetcher.ts: the POST of an item to the user's lists
addToList(token, item) == Request("/api/user/lists", token, item)

\* up to the await of addToList
handleAddToList(listType) ==
    /\ IF ~signedIn
          THEN /\ actionErrorTimers < MaxTimers
               /\ actionError' = Some("Please sign in to add to your list")
               /\ actionErrorTimers' = actionErrorTimers + 1
               /\ UNCHANGED <<adding, listInFlight, sent>>
          ELSE IF details = Null
          THEN UNCHANGED <<adding, actionError, actionErrorTimers, listInFlight, sent>>
          ELSE /\ adding' = [adding EXCEPT ![listType] = TRUE]
               /\ actionError' = Null
               /\ sent' = addToList(Val(session).access_token,
                                    [list_type |-> listType,
                                     media_type |-> "book",
                                     media_id |-> String(Str(Val(details).id)),
                                     title |-> Val(details).title,
                                     image_url |-> Val(details).cover_url])
               /\ listInFlight' = [listInFlight EXCEPT ![listType] = @ + 1]
               /\ UNCHANGED actionErrorTimers
    /\ UNCHANGED <<details, added>>
    /\ UNCHANGED <<dbVars, recVars, authVars, route, formVars>>

\* after the await: the answer, and the timeout set on either outcome
handleAddToListAnswered(listType, ok) ==
    /\ listInFlight[listType] > 0
    /\ listInFlight' = [listInFlight EXCEPT ![listType] = @ - 1]
    /\ IF ok THEN /\ added' = [added EXCEPT ![listType] = TRUE]
                  /\ UNCHANGED <<actionError, actionErrorTimers>>
             ELSE /\ actionErrorTimers < MaxTimers
                  /\ actionError' = Some("Failed to add to list. Please try again.")
                  /\ actionErrorTimers' = actionErrorTimers + 1
                  /\ UNCHANGED added
    /\ adding' = [adding EXCEPT ![listType] = FALSE]
    /\ UNCHANGED details
    /\ UNCHANGED <<dbVars, recVars, authVars, route, formVars, sent>>

\* the timeout set with setAdded(true) fires
ResetAdded(listType) ==
    /\ added[listType]
    /\ added' = [added EXCEPT ![listType] = FALSE]
    /\ UNCHANGED <<details, adding, actionError, actionErrorTimers, listInFlight>>
    /\ UNCHANGED <<dbVars, recVars, authVars, route, formVars, sent>>

\* a timeout set with an action error fires
ClearActionError ==
    /\ actionErrorTimers > 0
    /\ actionErrorTimers' = actionErrorTimers - 1
    /\ actionError' = Null
    /\ UNCHANGED <<details, adding, added, listInFlight>>
    /\ UNCHANGED <<dbVars, recVars, authVars, route, formVars, sent>>

\* the buttons "Add to Favorites" and "Add to Reading List", shown with the
\* details of the book
ClickAddToList(listType) ==
    /\ route = "/books/[id]"
    /\ details # Null
    /\ ~(adding[listType] \/ added[listType])
    /\ handleAddToList(listType)

NextForms ==
    \/ \E u \in AuthUsers, s \in AuthSessions : useAuth(u, s)
    \/ \E to \in Routes : navigate(to)
    \/ \E item \in MediaItems : fetchMedia(item)
    \/ \E item \in MediaItems : selectMedia(item)
    \/ changeSelection
    \/ \E star \in 1 .. MaxStars : setRating(star)
    \/ \E t \in ReviewTexts : setReviewText(t)
    \/ ClickSubmit
    \/ \E ok \in BOOLEAN : handleSubmitAnswered(ok)
    \/ ResetForm
    \/ \E d \in Books : fetchDetails(d)
    \/ \E lt \in BookListTypes : ClickAddToList(lt)
    \/ \E lt \in BookListTypes, ok \in BOOLEAN : handleAddToListAnswered(lt, ok)
    \/ \E lt \in BookListTypes : ResetAdded(lt)
    \/ ClearActionError

-----------------------------------------------------------------------------

NoTxn == [phase |-> "idle"]
Sessions == {"s1", "s2"}

Init ==
    /\ issued = 0
    /\ users = {}
    /\ profiles = {}
    /\ reviews = {}
    /\ user_lists = {}
    /\ last = [op |-> "setup", role |-> "provider", uid |-> NoId, arg |-> [id |-> NoId],
               err |-> NoError, rows |-> {}]
    /\ txns = [s \in Sessions |-> NoTxn]
    /\ movies = InitialMovies
    /\ isLoading = FALSE
    /\ recsError = Null
    /\ aiResponse = ""
    /\ recsInFlight = 0
    /\ user = Null
    /\ session = Null
    /\ route = "/reviews"
    /\ media = Null
    /\ rating = 0
    /\ reviewText = ""
    /\ submitting = FALSE
    /\ submitted = FALSE
    /\ error = Null
    /\ reviewInFlight = 0
    /\ details = Null
    /\ adding = [lt \in BookListTypes |-> FALSE]
    /\ added = [lt \in BookListTypes |-> FALSE]
    /\ actionError = Null
    /\ actionErrorTimers = 0
    /\ listInFlight = [lt \in BookListTypes |-> 0]
    /\ sent = NoRequest

-----------------------------------------------------------------------------
(* Transactions in flight (SpecTxn).  A statement is issued, executed and      *)
(* committed in separate steps.  Its result stays uncommitted, invisible to    *)
(* the other sessions, until the commit; a statement that needs a lock held    *)
(* by an uncommitted transaction waits for it.                                 *)

InFlight(t) == t.phase \in {"started", "pending"}

KeyOf(tbl, row) == IF tbl = "reviews" THEN ReviewKey(row) ELSE ListKey(row)
Table(tbl) == IF tbl = "reviews" THEN reviews ELSE user_lists

\* the inserts of the other sessions in flight on the key of (tbl, vals)
Rivals(s, tbl, vals) ==
    {t \in Sessions \ {s} :
        /\ InFlight(txns[t])
        /\ txns[t].kind = "insert"
        /\ txns[t].tbl = tbl
        /\ KeyOf(tbl, txns[t].vals) = KeyOf(tbl, vals)}

\* a caller sends INSERT INTO tbl VALUES (vals) on session s; race records
\* that another insert on the same key, not yet held by a committed row, is in
\* flight at the same time
BeginInsert(s, c, tbl, vals) ==
    /\ ~InFlight(txns[s])
    /\ LET race == /\ Rivals(s, tbl, vals) # {}
                   /\ \A r \in Table(tbl) : KeyOf(tbl, r) # KeyOf(tbl, vals)
       IN  txns' = [t \in Sessions |->
                      IF t = s
                         THEN [phase |-> "started", kind |-> "insert", tbl |-> tbl,
                               c |-> c, vals |-> vals, race |-> race]
                      ELSE IF race /\ t \in Rivals(s, tbl, vals)
                         THEN [txns[t] EXCEPT !.race = TRUE]
                      ELSE txns[t]]
    /\ UNCHANGED <<issued, users, profiles, reviews, user_lists, last, webVars>>

\* the rows other sessions have inserted into tbl and not committed
Uncommitted(s, tbl) ==
    {txns[t].row : t \in {x \in Sessions \ {s} :
                             /\ txns[x].phase = "pending"
                             /\ txns[x].kind = "insert"
                             /\ txns[x].tbl = tbl}}

\* mutant: an insert does not wait for an uncommitted row with its key
UniqueWaitNever(s, tbl, row) == FALSE

\* the unique index makes an insert wait for the transaction of an uncommitted
\* row with the same key
UniqueWait(s, tbl, row) == UniqueConflict(tbl, row, Uncommitted(s, tbl))

\* mutant: an insert takes no lock on the auth.users row it references
FkWaitNever(s, uid) == FALSE

\* the foreign key makes an insert wait for an uncommitted deletion of the
\* identity it references
FkWait(s, uid) ==
    \E t \in Sessions \ {s} :
        /\ txns[t].phase = "pending"
        /\ txns[t].kind = "delete_identity"
        /\ txns[t].uid = uid

\* the deletion of an identity waits for the uncommitted rows that reference
\* it and for an uncommitted deletion of the same identity
DeleteWait(s, uid) ==
    \/ \E t \in Sessions \ {s} :
          /\ txns[t].phase = "pending"
          /\ txns[t].kind = "insert"
          /\ txns[t].row.user_id = uid
    \/ FkWait(s, uid)

\* the outcome of an insert stays with the session when the insert was in a race
Finished(t, err) ==
    IF t.race THEN [phase |-> "done", kind |-> "insert", tbl |-> t.tbl, c |-> t.c,
                    vals |-> t.vals, race |-> TRUE, err |-> err]
    ELSE [phase |-> "idle"]

\* the insert of session s executes: it fails, or its row is inserted
\* uncommitted
ExecuteInsert(s) ==
    /\ txns[s].phase = "started"
    /\ txns[s].kind = "insert"
    /\ LET t == txns[s]
           taken == Table(t.tbl) \cup Uncommitted(s, t.tbl)
           row == [id |-> NewId(taken)] @@ t.vals
           res == ExecInsert(t.c, t.tbl, row, Table(t.tbl), users)
       IN  /\ ~UniqueWait(s, t.tbl, row)
           /\ ~FkWait(s, row.user_id)
           /\ res.err = NoError => HasFreshId(taken)
           /\ txns' = [txns EXCEPT ![s] =
                         IF res.err = NoError
                            THEN [phase |-> "pending", kind |-> "insert", tbl |-> t.tbl,
                                  c |-> t.c, vals |-> t.vals, race |-> t.race, row |-> row]
                            ELSE Finished(t, res.err)]
    /\ UNCHANGED <<issued, users, profiles, reviews, user_lists, last, webVars>>

\* the insert of session s commits: its row becomes visible
CommitInsert(s) ==
    /\ txns[s].phase = "pending"
    /\ txns[s].kind = "insert"
    /\ reviews' = IF txns[s].tbl = "reviews" THEN reviews \cup {txns[s].row} ELSE reviews
    /\ user_lists' = IF txns[s].tbl = "user_lists"
                        THEN user_lists \cup {txns[s].row} ELSE user_lists
    /\ txns' = [txns EXCEPT ![s] = Finished(txns[s], NoError)]
    /\ UNCHANGED <<issued, users, profiles, last, webVars>>

\* the identity provider sends DELETE FROM auth.users WHERE id = u on session s
BeginDelete(s, u) ==
    /\ ~InFlight(txns[s])
    /\ u \in users
    /\ txns' = [txns EXCEPT ![s] =
                  [phase |-> "started", kind |-> "delete_identity", uid |-> u]]
    /\ UNCHANGED <<issued, users, profiles, reviews, user_lists, last, webVars>>

\* the deletion executes: the identity's row and, by the cascades, the rows
\* that reference it are deleted, uncommitted
ExecuteDelete(s) ==
    /\ txns[s].phase = "started"
    /\ txns[s].kind = "delete_identity"
    /\ LET u == txns[s].uid
       IN  /\ ~DeleteWait(s, u)
           /\ txns' = [txns EXCEPT ![s] =
                         IF u \in users
                            THEN [phase |-> "pending", kind |-> "delete_identity",
                                  uid |-> u,
                                  gone |-> [profiles |-> profiles \ CascadeProfiles(u, profiles),
                                            reviews |-> reviews \ CascadeOwned(u, reviews),
                                            user_lists |-> user_lists \ CascadeOwned(u, user_lists)]]
                            ELSE [phase |-> "idle"]]
    /\ UNCHANGED <<issued, users, profiles, reviews, user_lists, last, webVars>>

\* the deletion commits: the identity and the rows deleted with it disappear
\* together
CommitDelete(s) ==
    /\ txns[s].phase = "pending"
    /\ txns[s].kind = "delete_identity"
    /\ users' = users \ {txns[s].uid}
    /\ profiles' = profiles \ txns[s].gone.profiles
    /\ reviews' = reviews \ txns[s].gone.reviews
    /\ user_lists' = user_lists \ txns[s].gone.user_lists
    /\ txns' = [txns EXCEPT ![s] = [phase |-> "idle"]]
    /\ UNCHANGED <<issued, last, webVars>>

\* the rows the sessions insert: own rows of an identity, valid values
TxnReviewVals(u) ==
    [user_id |-> u, media_type |-> "movie", media_id |-> "27205", rating |-> MaxRating,
     review_text |-> Some("great")]
TxnListVals(u) ==
    [user_id |-> u, list_type |-> "watchlist", media_type |-> "movie",
     media_id |-> "27205", title |-> "Inception"]

NextTxn ==
    \/ \E e \in SliceEmails, m \in SliceMetas : CreateIdentity(e, m)
    \/ \E s \in Sessions, u \in 1 .. issued :
          BeginInsert(s, Authenticated(u), "reviews", TxnReviewVals(u))
    \/ \E s \in Sessions, u \in 1 .. issued :
          BeginInsert(s, Authenticated(u), "user_lists", TxnListVals(u))
    \/ \E s \in Sessions : ExecuteInsert(s)
    \/ \E s \in Sessions : CommitInsert(s)
    \/ \E s \in Sessions, u \in Ids : BeginDelete(s, u)
    \/ \E s \in Sessions : ExecuteDelete(s)
    \/ \E s \in Sessions : CommitDelete(s)

SpecTxn == Init /\ [][NextTxn]_vars

\* identity events and inserts of valid rows, each one step: the tables that
\* reference auth.users filled together
NextCascade ==
    \/ IdentityEvent(Emails, Metas)
    \/ \E c \in OrdinaryCallers, u \in Ids :
          InsertReview(c, u, "movie", "27205", MaxRating, Some("great"))
    \/ \E c \in OrdinaryCallers, u \in Ids :
          InsertListItem(c, u, "watchlist", "movie", "27205", "Inception")

SpecCascade == Init /\ [][NextCascade]_vars

Next ==
    \/ IdentityEvent(Emails, Metas)
    \/ \E c \in OrdinaryCallers : ProfileStatement(c)
    \/ \E c \in OrdinaryCallers : ReviewStatement(c)
    \/ \E c \in OrdinaryCallers : ListStatement(c)

\* the whole storage layer: identity events and the statements of ordinary
\* callers on the three tables
Spec == Init /\ [][Next]_vars

\* A statement on one table reads and writes no other table, and auth.users
\* changes only by identity events: the three slices below are the storage
\* layer restricted to the statements on one table.
NextProfiles == IdentityEvent(Emails, Metas) \/ \E c \in OrdinaryCallers : ProfileStatement(c)
SpecProfiles == Init /\ [][NextProfiles]_vars

\* the review form and the book page
SpecForms == Init /\ [][NextForms]_vars

\* the recommendations page alone
SpecRecommend == Init /\ [][NextRecommend]_vars

NextReviews == IdentityEvent(SliceEmails, SliceMetas) \/ \E c \in OrdinaryCallers : ReviewStatement(c)
SpecReviews == Init /\ [][NextReviews]_vars

NextLists == IdentityEvent(SliceEmails, SliceMetas) \/ \E c \in OrdinaryCallers : ListStatement(c)
SpecLists == Init /\ [][NextLists]_vars

\* every caller, ordinary or privileged
AllCallers == OrdinaryCallers \cup {ServiceRole}

\* the statements on reviews of every caller, the service role included
NextReviewsAll ==
    IdentityEvent(SliceEmails, SliceMetas) \/ \E c \in AllCallers : ReviewStatement(c)
SpecReviewsAll == Init /\ [][NextReviewsAll]_vars

\* the writes the enumerations guard, on reviews and user_lists together, by
\* every caller: one valid and one invalid media_type and list_type
CheckedMediaTypes == {"movie", "podcast"}
CheckedListTypes == {"watchlist", "archive"}
CheckedReviewSets == {[media_type |-> x] : x \in CheckedMediaTypes}
CheckedListSets ==
    {[list_type |-> x] : x \in CheckedListTypes}
    \cup {[media_type |-> x] : x \in CheckedMediaTypes}

NextChecks ==
    \/ IdentityEvent(SliceEmails, SliceMetas)
    \/ \E c \in AllCallers, u \in Ids, mt \in CheckedMediaTypes :
          InsertReview(c, u, mt, "27205", MaxRating, Some("great"))
    \/ \E c \in AllCallers, i \in RowIds, set \in CheckedReviewSets : UpdateReview(c, i, set)
    \/ \E c \in AllCallers, u \in Ids, lt \in CheckedListTypes, mt \in CheckedMediaTypes :
          InsertListItem(c, u, lt, mt, "27205", "Inception")
    \/ \E c \in AllCallers, i \in RowIds, set \in CheckedListSets : UpdateListItem(c, i, set)

SpecChecks == Init /\ [][NextChecks]_vars

\* the statements of ordinary callers on the three tables together, with one
\* value per column: who may insert, read, update and delete which row
AccessProfileSets == {[username |-> Some(alice)]} \cup {[id |-> i] : i \in Ids}
AccessReviewSets == {[rating |-> MaxRating]} \cup {[user_id |-> x] : x \in Ids}
AccessListSets == {[title |-> "Inception"]} \cup {[user_id |-> x] : x \in Ids}

NextAccess ==
    \/ IdentityEvent(SliceEmails, SliceMetas)
    \/ \E c \in OrdinaryCallers, i \in Ids : InsertProfile(c, i, Null)
    \/ \E c \in OrdinaryCallers, i \in Ids, set \in AccessProfileSets : UpdateProfile(c, i, set)
    \/ \E c \in OrdinaryCallers, i \in Ids : DeleteProfile(c, i)
    \/ \E c \in OrdinaryCallers, u \in Ids :
          InsertReview(c, u, "movie", "27205", MaxRating, Some("great"))
    \/ \E c \in OrdinaryCallers, i \in RowIds, set \in AccessReviewSets : UpdateReview(c, i, set)
    \/ \E c \in OrdinaryCallers, i \in RowIds : DeleteReview(c, i)
    \/ \E c \in OrdinaryCallers, u \in Ids :
          InsertListItem(c, u, "watchlist", "movie", "27205", "Inception")
    \/ \E c \in OrdinaryCallers, i \in RowIds, set \in AccessListSets : UpdateListItem(c, i, set)
    \/ \E c \in OrdinaryCallers, i \in RowIds : DeleteListItem(c, i)
    \/ \E c \in OrdinaryCallers, i \in RowIds : SelectListItem(c, i)

SpecAccess == Init /\ [][NextAccess]_vars

\* the statements of the service role on reviews and user_lists: rows of any
\* identity, valid and invalid values
ServiceRatings == {0, MaxRating}
ServiceReviewSets ==
    {[rating |-> 0], [media_type |-> "podcast"]} \cup {[user_id |-> x] : x \in Ids}
ServiceListSets == {[list_type |-> "archive"]} \cup {[user_id |-> x] : x \in Ids}

NextService ==
    \/ IdentityEvent(SliceEmails, SliceMetas)
    \/ \E u \in Ids, mt \in CheckedMediaTypes, x \in ServiceRatings :
          InsertReview(ServiceRole, u, mt, "27205", x, Some("great"))
    \/ \E i \in RowIds, set \in ServiceReviewSets : UpdateReview(ServiceRole, i, set)
    \/ \E i \in RowIds : DeleteReview(ServiceRole, i)
    \/ \E i \in RowIds : SelectReview(ServiceRole, i)
    \/ \E u \in Ids, lt \in CheckedListTypes, mt \in CheckedMediaTypes :
          InsertListItem(ServiceRole, u, lt, mt, "27205", "Inception")
    \/ \E i \in RowIds, set \in ServiceListSets : UpdateListItem(ServiceRole, i, set)
    \/ \E i \in RowIds : DeleteListItem(ServiceRole, i)
    \/ \E i \in RowIds : SelectListItem(ServiceRole, i)

SpecService == Init /\ [][NextService]_vars
-----------------------------------------------------------------------------
(* Claims on reviews (SpecReviews) *)

OrdinaryRoles == {"anon", "authenticated"}

\* C2: if U already has a review for K, a second insert by U of a (valid)
\* review for K fails with UniqueViolation and the table, hence the stored row
\* with its rating, review_text and id, is what it was before the attempt.
C2_DuplicateInsertRejected ==
    [][ ( /\ last'.op = "insert_review"
          /\ last'.role \in OrdinaryRoles
          /\ last'.arg.user_id = last'.uid
          /\ last'.arg.rating >= MinRating /\ last'.arg.rating <= MaxRating
          /\ \E r \in reviews : /\ r.user_id = last'.uid
                                /\ r.media_type = last'.arg.media_type
                                /\ r.media_id = last'.arg.media_id )
        => (last'.err = UniqueViolation /\ last'.rows = {} /\ reviews' = reviews) ]_vars

\* C2 witness: U's insert of a second review for K, with another rating than
\* the stored one, was rejected with UniqueViolation
C2_Witness ==
    /\ last.op = "insert_review"
    /\ last.err = UniqueViolation
    /\ \E r \in reviews : /\ r.user_id = last.uid
                          /\ r.media_type = last.arg.media_type
                          /\ r.media_id = last.arg.media_id
                          /\ r.rating # last.arg.rating

\* an update or delete of reviews by identity U2 aimed at a row of another owner
ForeignReviewWrite(l, rows) ==
    /\ l.op \in {"update_review", "delete_review"}
    /\ l.role = "authenticated"
    /\ \E r \in rows : r.id = l.arg.id /\ r.user_id # l.uid

\* C3 as stated: U2's update or delete of U1's review fails with
\* AuthorizationDenied.
C3_Original == ForeignReviewWrite(last, reviews) => last.err = InsufficientPrivilege

\* C3 amended: U2's update or delete of U1's review completes without an error
\* and affects no row (the policy hides the row from the statement), and the
\* table, hence U1's row, is unchanged.
C3_ForeignWriteAffectsNothing ==
    [][ ForeignReviewWrite(last', reviews)
        => (last'.err = NoError /\ last'.rows = {} /\ reviews' = reviews) ]_vars

\* C3 witness: U2 has updated or deleted aiming at U1's review
C3_Witness == ForeignReviewWrite(last, reviews) /\ last.rows = {}

-----------------------------------------------------------------------------
(* Claims on user_lists (SpecLists) *)

\* a read of a list item by a caller that is not its owner
ForeignListRead(l, rows) ==
    /\ l.op = "select_list_item"
    /\ l.role \in OrdinaryRoles
    /\ \E r \in rows : r.id = l.arg.id /\ r.user_id # l.uid

\* C4 as stated: a read of U's list item by another identity or by no identity
\* fails with AuthorizationDenied.
C4_Original == ForeignListRead(last, user_lists) => last.err = InsufficientPrivilege

\* C4 amended: a read of U's list item by another identity or by no identity
\* succeeds with an empty result and never returns the row; a read returns
\* only rows the reader owns, and the owner's read returns the row.
C4_ForeignReadReturnsNothing ==
    /\ \A c \in OrdinaryCallers : \A r \in user_lists :
          ExecSelect(c, "user_lists", r.id, user_lists)
             = Result(NoError, IF c.uid = r.user_id THEN {r} ELSE {})
    /\ last.op = "select_list_item" =>
          /\ last.err = NoError
          /\ last.rows = {r \in user_lists : r.id = last.arg.id /\ r.user_id = last.uid}

\* C4 witness: another caller has read aiming at U's list item and got nothing
C4_Witness == ForeignListRead(last, user_lists) /\ last.rows = {}

-----------------------------------------------------------------------------
(* Claims on identities and profiles (SpecProfiles) *)

ProfilesOf(u) == {p \in profiles : p.id = u}

\* C6: in every state every existing identity has exactly one profile row
\* whose id is the identity's id.
C6_EveryIdentityHasOneProfile == \A u \in users : Cardinality(ProfilesOf(u)) = 1

\* C6 witness: with two identities, an owner has tried to delete its profile
C6_Witness ==
    /\ Cardinality(users) = MaxIds
    /\ last.op = "delete_profile"
    /\ last.uid \in users
    /\ last.arg.id = last.uid

\* the creation of an identity whose derived username a profile holds
CollidingCreation(l, rows) ==
    /\ l.op = "create_identity"
    /\ \E p \in rows : /\ p.username # Null
                       /\ p.username = DerivedUsername(l.arg.email, l.arg.meta)

\* C7: when the derived username is the username of an existing profile, the
\* identity creation fails as a whole: no new identity, no profile for it and
\* the profiles unchanged.
C7_CollisionAbortsCreation ==
    [][ CollidingCreation(last', profiles)
        => /\ last'.err = UniqueViolation
           /\ users' = users
           /\ profiles' = profiles
           /\ last'.uid \notin users'
           /\ \A p \in profiles' : p.id # last'.uid ]_vars

\* C7 witness: a creation has failed on a username collision
C7_Witness == CollidingCreation(last, profiles) /\ last.err = UniqueViolation

\* the text of an email before its first '@'
IsLocalPart(name, email) ==
    \E k \in 1 .. Len(email) :
        /\ email[k] = "@"
        /\ \A j \in 1 .. (k - 1) : email[j] # "@"
        /\ name = SubSeq(email, 1, k - 1)

\* C8: the profile of a created identity has the identity's id and, as
\* username, the metadata username when one is present, otherwise the text of
\* the email before the '@'.
C8_UsernameDerivation ==
    (last.op = "create_identity" /\ last.err = NoError) =>
        \E p \in profiles :
            /\ p.id = last.uid
            /\ last.uid \in users
            /\ "username" \in DOMAIN last.arg.meta
                  => p.username = Some(last.arg.meta.username)
            /\ ("username" \notin DOMAIN last.arg.meta /\ last.arg.email # Null)
                  => /\ p.username # Null
                     /\ IsLocalPart(Val(p.username), Val(last.arg.email))

\* C8 witness: alice@example.com without a metadata username got username alice
C8_Witness ==
    /\ last.op = "create_identity"
    /\ last.err = NoError
    /\ last.arg.email = Some(aliceAtExample)
    /\ "username" \notin DOMAIN last.arg.meta
    /\ \E p \in profiles : p.id = last.uid /\ p.username = Some(alice)

\* the rows of an identity in the tables that reference auth.users
ReviewsOf(u, rows) == {r \in rows : r.user_id = u}
ListItemsOf(u, rows) == {r \in rows : r.user_id = u}

\* C9: the deletion of an identity removes its profile, its reviews and its
\* list items, so that no caller finds any of them afterwards, and leaves the
\* profiles, reviews and list items of every other identity exactly as they
\* were.
C9_DeletionCascades ==
    [][ \A u \in users \ users' :
          /\ users' = users \ {u}
          /\ ProfilesOf(u)' = {}
          /\ ReviewsOf(u, reviews') = {}
          /\ ListItemsOf(u, user_lists') = {}
          /\ \A c \in OrdinaryCallers :
                /\ \A r \in ProfilesOf(u) :
                      ExecSelect(c, "profiles", r.id, profiles').rows = {}
                /\ \A r \in ReviewsOf(u, reviews) :
                      ExecSelect(c, "reviews", r.id, reviews').rows = {}
                /\ \A r \in ListItemsOf(u, user_lists) :
                      ExecSelect(c, "user_lists", r.id, user_lists').rows = {}
          /\ \A v \in Ids \ {u} :
                /\ ProfilesOf(v)' = ProfilesOf(v)
                /\ ReviewsOf(v, reviews') = ReviewsOf(v, reviews)
                /\ ListItemsOf(v, user_lists') = ListItemsOf(v, user_lists) ]_vars

\* C9 witness: a deletion has removed a profile, a review and a list item
\* while another identity keeps a profile, a review and a list item
C9_Witness ==
    /\ last.op = "delete_identity"
    /\ last.uid \notin users
    /\ \E r \in last.rows : "username" \in DOMAIN r /\ r.id = last.uid
    /\ \E r \in last.rows : "rating" \in DOMAIN r /\ r.user_id = last.uid
    /\ \E r \in last.rows : "list_type" \in DOMAIN r /\ r.user_id = last.uid
    /\ \E v \in users : /\ ProfilesOf(v) # {}
                        /\ ReviewsOf(v, reviews) # {}
                        /\ ListItemsOf(v, user_lists) # {}

\* two sessions whose inserts on one free key were in flight together
Raced(s, t) ==
    /\ s # t
    /\ txns[s].phase # "idle" /\ txns[t].phase # "idle"
    /\ txns[s].kind = "insert" /\ txns[t].kind = "insert"
    /\ txns[s].race /\ txns[t].race
    /\ txns[s].tbl = txns[t].tbl
    /\ KeyOf(txns[s].tbl, txns[s].vals) = KeyOf(txns[t].tbl, txns[t].vals)

Succeeded(t) == t.phase = "done" /\ t.err = NoError
Rejected(t) == t.phase = "done" /\ t.err = UniqueViolation

\* C1: when two inserts of a valid review of an existing identity U with the
\* same (U, media_type, media_id), not yet held by a row, are in flight at the
\* same time, then in every interleaving at most one of them holds the key
\* uncommitted, and once both have finished exactly one has succeeded, the
\* other has failed with a unique violation and exactly one row has the key;
\* the same for two list-item inserts with the same
\* (U, list_type, media_type, media_id).
C1_ConcurrentInsertsOneWins ==
    \A s, t \in Sessions :
        (Raced(s, t) /\ txns[s].vals.user_id \in users) =>
            LET tbl == txns[s].tbl
                key == KeyOf(tbl, txns[s].vals)
                held == {r \in Table(tbl) : KeyOf(tbl, r) = key}
            IN  /\ ~(txns[s].phase = "pending" /\ txns[t].phase = "pending")
                /\ Cardinality(held) <= 1
                /\ Succeeded(txns[s]) => txns[t].phase # "pending"
                /\ (txns[s].phase = "done" /\ txns[t].phase = "done") =>
                      /\ Succeeded(txns[s]) \/ Succeeded(txns[t])
                      /\ Succeeded(txns[s]) => Rejected(txns[t])
                      /\ Succeeded(txns[t]) => Rejected(txns[s])
                      /\ Cardinality(held) = 1

\* C1 witness: two racing review inserts have both finished, one with success
\* and one with a unique violation
C1_Witness ==
    \E s, t \in Sessions :
        /\ Raced(s, t)
        /\ txns[s].tbl = "reviews"
        /\ txns[s].vals.user_id \in users
        /\ Succeeded(txns[s])
        /\ Rejected(txns[t])

\* what a reader of the committed tables must never see: a row of an identity
\* that does not exist, or an identity without its profile
NoOrphans ==
    /\ \A p \in profiles : p.id \in users
    /\ \A r \in reviews \cup user_lists : r.user_id \in users
    /\ \A u \in users : ProfilesOf(u) # {}

\* C10: the deletion of an identity and of the rows that depend on it is one
\* step for every concurrent reader: in no committed state is an identity
\* gone while a profile, review or list item of it exists, and the rows of an
\* identity never disappear in a step that leaves the identity in place.
C10_DeletionAtomic ==
    /\ []NoOrphans
    /\ [][ \A u \in Ids :
             (\/ ProfilesOf(u)' # ProfilesOf(u)
              \/ ~(ReviewsOf(u, reviews) \subseteq reviews')
              \/ ~(ListItemsOf(u, user_lists) \subseteq user_lists'))
             => (u \in users') # (u \in users) ]_vars

\* C10 witness: the deletion of an identity with a review and a list item is
\* uncommitted, the rows still visible, while an insert for the same identity
\* is in flight
C10_Witness ==
    \E s, t \in Sessions :
        /\ txns[s].phase = "pending"
        /\ txns[s].kind = "delete_identity"
        /\ txns[s].gone.reviews # {}
        /\ txns[s].gone.user_lists # {}
        /\ txns[s].gone.reviews \subseteq reviews
        /\ txns[t].phase = "started"
        /\ txns[t].kind = "insert"
        /\ txns[t].vals.user_id = txns[s].uid

-----------------------------------------------------------------------------
(* Claims on the constraints of reviews (SpecReviewsAll) *)

\* an update of review r with set would put it on the key of another review
\* or give it a rating outside 1..10
BreaksReviewConstraint(r, set) ==
    \/ \E o \in reviews \ {r} : ReviewKey(o) = ReviewKey(Assign(r, set))
    \/ Assign(r, set).rating < 1
    \/ Assign(r, set).rating > 10

\* C11: in every state, whatever ordinary and privileged callers have
\* inserted, updated and deleted, reviews holds at most one row per
\* (user_id, media_type, media_id), every rating is in 1..10 and every
\* media_type is movie, book or show; an update that would move a review onto
\* the key of another review, or set its rating outside 1..10, stores nothing,
\* and fails with an error when the caller may update the row.
C11_ReviewInvariants ==
    /\ \A r1, r2 \in reviews : ReviewKey(r1) = ReviewKey(r2) => r1 = r2
    /\ \A r \in reviews : /\ r.rating \in 1 .. 10
                          /\ r.media_type \in {"movie", "book", "show"}
    /\ \A c \in AllCallers, r \in reviews, set \in ReviewSets :
          BreaksReviewConstraint(r, set) =>
             LET res == ExecUpdate(c, "reviews", r.id, set, reviews, users)
             IN  /\ res.rows = {}
                 /\ AfterUpdate(r.id, reviews, res) = reviews
                 /\ (c = ServiceRole \/ c.uid = r.user_id) => res.err # NoError
    /\ (last.op = "update_review" /\ last.err # NoError) => last.rows = {}

\* C11 witness: with two reviews of one user in the table, an update that
\* would have put one on the key of the other was rejected
C11_Witness ==
    /\ last.op = "update_review"
    /\ last.err = UniqueViolation
    /\ \E r1, r2 \in reviews : /\ r1 # r2
                               /\ r1.user_id = r2.user_id
                               /\ r1.id = last.arg.id

-----------------------------------------------------------------------------
(* Claims on the constraints of user_lists (SpecLists) *)

\* the list items on the same (user_id, list_type, media_type, media_id) as a
SameListEntry(a, rows) ==
    {r \in rows : /\ r.user_id = a.user_id
                  /\ r.list_type = a.list_type
                  /\ r.media_type = a.media_type
                  /\ r.media_id = a.media_id}

\* an insert of a valid list item by the identity it names
OwnListInsert(l) ==
    /\ l.op = "insert_list_item"
    /\ l.role = "authenticated"
    /\ l.arg.user_id = l.uid
    /\ l.arg.list_type \in {"watchlist", "favorites", "reading_list", "completed"}
    /\ l.arg.media_type \in {"movie", "book", "show"}

\* C12: in every state user_lists holds at most one row per
\* (user_id, list_type, media_type, media_id); an existing user's insert of a
\* media item under a list type in which the user does not hold it succeeds,
\* whatever other list types hold the same item, and an insert under a list
\* type that holds it already fails with UniqueViolation and changes nothing.
C12_ListItemUniqueness ==
    /\ [](\A r1, r2 \in user_lists : r1 \in SameListEntry(r2, user_lists) => r1 = r2)
    /\ [][ OwnListInsert(last') =>
             IF SameListEntry(last'.arg, user_lists) # {}
                THEN /\ last'.err = UniqueViolation
                     /\ user_lists' = user_lists
                ELSE last'.uid \in users =>
                        /\ last'.err = NoError
                        /\ Cardinality(last'.rows) = 1
                        /\ user_lists' = user_lists \cup last'.rows
                        /\ SameListEntry(last'.arg, user_lists') = last'.rows ]_vars

\* C12 witness: a user holds the same movie in watchlist and in favorites, and
\* its insert of the movie into one of the two a second time was rejected
C12_Witness ==
    /\ OwnListInsert(last)
    /\ last.err = UniqueViolation
    /\ \E r1, r2 \in user_lists :
          /\ r1.user_id = last.uid /\ r2.user_id = last.uid
          /\ r1.list_type = "watchlist" /\ r2.list_type = "favorites"
          /\ r1.media_type = "movie" /\ r2.media_type = "movie"
          /\ r1.media_id = "27205" /\ r2.media_id = "27205"

-----------------------------------------------------------------------------
(* Claims on the CHECK constraints (SpecReviewsAll) *)

\* an insert of a review by a caller the policies let insert it: the identity
\* the row names, or the service role
PermittedReviewInsert(l) ==
    /\ l.op = "insert_review"
    /\ \/ l.role = "service_role"
       \/ l.role = "authenticated" /\ l.arg.user_id = l.uid

\* C13: a review write, by a caller that may write the row, with rating 0 or
\* 11 or any rating below 1 or above 10 is rejected with CheckViolation and
\* stores nothing; an insert with rating 1 or 10 of an otherwise valid review
\* of an existing user on a free key succeeds and stores that rating, and so
\* does an update of a review's rating to 1 or 10.
C13_RatingBounds ==
    /\ [][ PermittedReviewInsert(last') =>
             IF last'.arg.rating < 1 \/ last'.arg.rating > 10
                THEN /\ last'.err = CheckViolation
                     /\ last'.rows = {}
                     /\ reviews' = reviews
                ELSE ( /\ last'.arg.rating \in {1, 10}
                       /\ last'.arg.media_type \in {"movie", "book", "show"}
                       /\ last'.arg.user_id \in users
                       /\ \A r \in reviews :
                             <<r.user_id, r.media_type, r.media_id>>
                                # <<last'.arg.user_id, last'.arg.media_type, last'.arg.media_id>> )
                     => /\ last'.err = NoError
                        /\ reviews' = reviews \cup last'.rows
                        /\ \E r \in last'.rows : /\ r \notin reviews
                                                 /\ r.rating = last'.arg.rating ]_vars
    /\ [](\A c \in AllCallers, r \in reviews, x \in RatingInputs :
            (c = ServiceRole \/ c.uid = r.user_id) =>
               ExecUpdate(c, "reviews", r.id, [rating |-> x], reviews, users)
                  = IF x < 1 \/ x > 10
                       THEN Result(CheckViolation, {})
                       ELSE Result(NoError, {[r EXCEPT !.rating = x]}))
    /\ [][ (last'.op = "update_review" /\ last'.err = CheckViolation)
             => reviews' = reviews ]_vars

\* C13 witness: the table holds a review with rating 1 and one with rating 10,
\* and an owner's insert with rating 0 or 11 was rejected with CheckViolation
C13_Witness ==
    /\ PermittedReviewInsert(last)
    /\ last.role = "authenticated"
    /\ last.arg.rating \in {0, 11}
    /\ last.err = CheckViolation
    /\ \E r1, r2 \in reviews : r1.rating = 1 /\ r2.rating = 10

-----------------------------------------------------------------------------
(* Claims on the enumerations of reviews and user_lists (SpecChecks) *)

\* an insert of a review or list item with a media_type or list_type outside
\* the declared values
InvalidEnumInsert(l) ==
    \/ /\ l.op = "insert_review"
       /\ l.arg.media_type \notin {"movie", "book", "show"}
    \/ /\ l.op = "insert_list_item"
       /\ \/ l.arg.media_type \notin {"movie", "book", "show"}
          \/ l.arg.list_type \notin {"watchlist", "favorites", "reading_list", "completed"}

\* the row after the update has a value outside the declared values
InvalidEnumRow(tbl, row) ==
    \/ row.media_type \notin {"movie", "book", "show"}
    \/ /\ tbl = "user_lists"
       /\ row.list_type \notin {"watchlist", "favorites", "reading_list", "completed"}

\* the policies let caller c write a row owned by uid
MayWriteRowOf(c, uid) == c.role = "service_role" \/ (c.role = "authenticated" /\ c.uid = uid)

\* updates of row r of tbl to an invalid enumerated value: nothing is stored;
\* CheckViolation for a caller that may write the row, no row touched otherwise
InvalidEnumUpdatesRejected(tbl, rows, sets) ==
    \A c \in AllCallers, r \in rows, set \in sets :
        InvalidEnumRow(tbl, Assign(r, set)) =>
            ExecUpdate(c, tbl, r.id, set, rows, users)
               = IF MayWriteRowOf(c, r.user_id)
                    THEN Result(CheckViolation, {})
                    ELSE Result(NoError, {})

\* C14 as stated: a write with a media_type or list_type outside the declared
\* values is rejected with CheckViolation, whoever the caller is.
C14_Original == InvalidEnumInsert(last) => last.err = CheckViolation

\* C14 amended: a write of a review or list item with a media_type or
\* list_type outside the declared values never stores anything and leaves the
\* table unchanged, whoever the caller is; it is rejected with CheckViolation
\* when the caller may write the row (the owner, the service role), and
\* otherwise the policy rejects the insert first or the update touches no row.
C14_InvalidEnumNeverStored ==
    /\ [][ InvalidEnumInsert(last') =>
             /\ last'.rows = {}
             /\ reviews' = reviews
             /\ user_lists' = user_lists
             /\ last'.err = IF MayWriteRowOf(last', last'.arg.user_id)
                               THEN CheckViolation ELSE InsufficientPrivilege ]_vars
    /\ [](/\ InvalidEnumUpdatesRejected("reviews", reviews, CheckedReviewSets)
          /\ InvalidEnumUpdatesRejected("user_lists", user_lists, CheckedListSets)
          /\ \A r \in reviews : ~InvalidEnumRow("reviews", r)
          /\ \A r \in user_lists : ~InvalidEnumRow("user_lists", r))
    /\ [][ (last'.op \in {"update_review", "update_list_item"} /\ last'.err = CheckViolation)
             => (reviews' = reviews /\ user_lists' = user_lists) ]_vars

\* C14 witness: with a review and a list item stored, an update by their
\* owner to an invalid value was rejected with CheckViolation
C14_Witness ==
    /\ last.op \in {"update_review", "update_list_item"}
    /\ last.role = "authenticated"
    /\ last.err = CheckViolation
    /\ \E r \in reviews : r.user_id = last.uid
    /\ \E r \in user_lists : r.user_id = last.uid

-----------------------------------------------------------------------------
(* Claims on who may write and read which row (SpecAccess) *)

\* an insert by an ordinary caller of a row that names another identity
ForeignInsert(l) ==
    /\ l.role \in OrdinaryRoles
    /\ \/ l.op \in {"insert_review", "insert_list_item"} /\ l.arg.user_id # l.uid
       \/ l.op = "insert_profile" /\ l.arg.id # l.uid

\* C15: an insert by an ordinary caller, an identity or none, of a review or
\* list item whose user_id is not the caller's identity, or of a profile whose
\* id is not the caller's identity, is denied with an error and creates no row.
C15_InsertOnlyOwnRows ==
    [][ ForeignInsert(last') =>
          /\ last'.err = InsufficientPrivilege
          /\ last'.rows = {}
          /\ profiles' = profiles
          /\ reviews' = reviews
          /\ user_lists' = user_lists ]_vars

\* C15 witness: identity U2 tried to insert a review with the user_id of
\* another existing identity U1 that has no review yet
C15_Witness ==
    /\ ForeignInsert(last)
    /\ last.op = "insert_review"
    /\ last.role = "authenticated"
    /\ last.uid \in users
    /\ last.arg.user_id \in users
    /\ \A r \in reviews : r.user_id # last.arg.user_id

\* the operations that create, change or remove rows
WriteOps ==
    {"insert_profile", "update_profile", "delete_profile",
     "insert_review", "update_review", "delete_review",
     "insert_list_item", "update_list_item", "delete_list_item"}

\* C16: what no rule allows is denied.  No row passes, for any ordinary
\* caller, a command on a table for which the script creates no policy; a
\* caller with no identity creates, changes and removes no row of profiles,
\* reviews and user_lists (its inserts fail with an error, its updates and
\* deletes touch no row) and its reads of list items return no row; and no
\* ordinary caller, the owner included, removes a profile row by a delete.
C16_DefaultDeny ==
    /\ [](\A c \in OrdinaryCallers, tbl \in Tables,
             cmd \in {"SELECT", "INSERT", "UPDATE", "DELETE"} :
            (\A p \in Policies : ~(p.tbl = tbl /\ p.cmd = cmd)) =>
                \A r \in (CASE tbl = "profiles" -> profiles
                            [] tbl = "reviews" -> reviews
                            [] OTHER -> user_lists) :
                    ~PolicyPasses(c, tbl, cmd, r))
    /\ [](\A p \in profiles, c \in OrdinaryCallers :
            ExecDelete(c, "profiles", p.id, profiles).rows = {})
    /\ [](\A r \in user_lists :
            /\ ExecSelect(Anon, "user_lists", r.id, user_lists).rows = {}
            /\ ExecDelete(Anon, "user_lists", r.id, user_lists).rows = {}
            /\ \A set \in AccessListSets :
                  ExecUpdate(Anon, "user_lists", r.id, set, user_lists, users).rows = {})
    /\ [](\A r \in reviews :
            /\ ExecDelete(Anon, "reviews", r.id, reviews).rows = {}
            /\ \A set \in AccessReviewSets :
                  ExecUpdate(Anon, "reviews", r.id, set, reviews, users).rows = {})
    /\ [](\A p \in profiles, set \in AccessProfileSets :
            ExecUpdate(Anon, "profiles", p.id, set, profiles, users).rows = {})
    /\ [][ (last'.role = "anon" /\ last'.op \in WriteOps \cup {"select_list_item"}) =>
             /\ last'.rows = {}
             /\ profiles' = profiles /\ reviews' = reviews /\ user_lists' = user_lists
             /\ last'.op \in {"insert_profile", "insert_review", "insert_list_item"}
                   => last'.err = InsufficientPrivilege ]_vars
    /\ [][ (last'.op = "delete_profile" /\ last'.role \in OrdinaryRoles) =>
             (last'.rows = {} /\ profiles' = profiles) ]_vars

\* C16 witness: an identity has tried to delete its own profile, which is
\* still there, while a review and a list item exist
C16_Witness ==
    /\ last.op = "delete_profile"
    /\ last.role = "authenticated"
    /\ last.arg.id = last.uid
    /\ \E p \in profiles : p.id = last.uid
    /\ reviews # {}
    /\ user_lists # {}

\* every row of after with the id of a row of before has that row's user_id
SameOwners(before, after) ==
    \A r \in before, n \in after : r.id = n.id => r.user_id = n.user_id

\* an update by its owner that would give a row of tbl to another identity is
\* rejected with an error
OwnerChangeRejected(tbl, rows, col) ==
    \A r \in rows, v \in Ids :
        v # OwnerOf(tbl, r) =>
            ExecUpdate(Authenticated(OwnerOf(tbl, r)), tbl, r.id,
                       [x \in {col} |-> v], rows, users)
               = Result(InsufficientPrivilege, {})

\* C17: no operation of an ordinary caller changes the user_id of a review
\* or list item: in every step each row that stays has the user_id it had;
\* an update by the owner that would set user_id to another identity is
\* rejected with an error and changes nothing, and so is an update by its
\* owner of a profile's id.
C17_OwnershipNeverChanges ==
    /\ [][ /\ SameOwners(reviews, reviews')
           /\ SameOwners(user_lists, user_lists')
           /\ (last'.op \in {"update_profile", "update_review", "update_list_item"}
                  /\ last'.err = InsufficientPrivilege)
                 => (profiles' = profiles /\ reviews' = reviews /\ user_lists' = user_lists)
         ]_vars
    /\ [](/\ OwnerChangeRejected("reviews", reviews, "user_id")
          /\ OwnerChangeRejected("user_lists", user_lists, "user_id")
          /\ OwnerChangeRejected("profiles", profiles, "id"))

\* C17 witness: the owner of a review has tried an update the policy rejects
\* for the new row, the row still being the owner's, with another identity
\* existing
C17_Witness ==
    /\ last.op = "update_review"
    /\ last.role = "authenticated"
    /\ last.err = InsufficientPrivilege
    /\ \E r \in reviews : r.id = last.arg.id /\ r.user_id = last.uid
    /\ \E v \in users : v # last.uid

-----------------------------------------------------------------------------
(* Claims on the life of a profile (SpecProfiles) *)

ProfileIds(rows) == {p.id : p \in rows}

\* C18: a profile exists only while the identity with its id exists; it
\* appears only in the step that creates that identity, its contents change
\* only by an update issued by that identity, and it disappears only in the
\* step that deletes that identity (under identity events and the statements
\* of ordinary callers).
C18_ProfileLifetime ==
    /\ [](ProfileIds(profiles) \subseteq users)
    /\ [][ /\ \A p \in profiles' \ profiles :
                IF p.id \notin ProfileIds(profiles)
                   THEN /\ last'.op = "create_identity"
                        /\ last'.err = NoError
                        /\ last'.uid = p.id
                        /\ p.id \in users' \ users
                   ELSE /\ last'.op = "update_profile"
                        /\ last'.role = "authenticated"
                        /\ last'.uid = p.id
                        /\ last'.arg.id = p.id
           /\ \A p \in profiles :
                p.id \notin ProfileIds(profiles') =>
                   /\ last'.op = "delete_identity"
                   /\ last'.uid = p.id
                   /\ p.id \in users \ users' ]_vars

\* C18 witness: one identity has been deleted and its profile with it; the
\* remaining identity has just changed its own profile
C18_Witness ==
    /\ issued = MaxIds
    /\ Cardinality(users) = 1
    /\ ProfileIds(profiles) = users
    /\ last.op = "update_profile"
    /\ last.err = NoError
    /\ \E p \in last.rows : p \in profiles /\ p.id = last.uid /\ p.username # Null

\* C19: in every state no two profiles hold the same set username, while an
\* unset username conflicts with nothing; an update by its owner of a
\* profile's username to a value another profile holds fails with
\* UniqueViolation and changes no profile, and to any other value, unset
\* included, succeeds.
C19_UsernameUnique ==
    /\ [](\A p1, p2 \in profiles :
            (p1.username # Null /\ p1.username = p2.username) => p1 = p2)
    /\ [](\A p \in profiles, x \in UsernameInputs :
            ExecUpdate(Authenticated(p.id), "profiles", p.id, [username |-> x],
                       profiles, users)
               = IF x # Null /\ \E q \in profiles \ {p} : q.username = x
                    THEN Result(UniqueViolation, {})
                    ELSE Result(NoError, {[p EXCEPT !.username = x]}))
    /\ [][ (last'.op = "update_profile" /\ last'.err = UniqueViolation)
             => profiles' = profiles ]_vars

\* C19 witness: an owner's update of its username to the one another profile
\* holds was rejected with UniqueViolation
C19_Witness ==
    /\ last.op = "update_profile"
    /\ last.role = "authenticated"
    /\ last.err = UniqueViolation
    /\ \E p, q \in profiles : /\ p.id = last.uid
                              /\ q.id # p.id
                              /\ q.username # Null
                              /\ p.username # q.username

-----------------------------------------------------------------------------
(* Claims on non-owners (SpecAccess) *)

\* an update or delete of a list item by an ordinary caller that is not its
\* owner
ForeignListWrite(l, rows) ==
    /\ l.op \in {"update_list_item", "delete_list_item"}
    /\ l.role \in OrdinaryRoles
    /\ \E r \in rows : r.id = l.arg.id /\ r.user_id # l.uid

ListOps == {"insert_list_item", "update_list_item", "delete_list_item", "select_list_item"}

\* C20: an update or delete of a list item of U, or an update of U's profile,
\* issued by another identity or by a caller with no identity touches no row
\* and leaves the row unchanged, and a read returns nothing; U's own read,
\* update and delete reach the row; every list item a statement of an
\* ordinary caller creates, returns, changes or removes is the caller's own.
C20_OnlyOwnerTouchesListItems ==
    /\ [](\A c \in OrdinaryCallers, r \in user_lists :
            IF c.uid = r.user_id
               THEN /\ ExecSelect(c, "user_lists", r.id, user_lists) = Result(NoError, {r})
                    /\ ExecDelete(c, "user_lists", r.id, user_lists) = Result(NoError, {r})
                    /\ ExecUpdate(c, "user_lists", r.id, [title |-> "Inception"],
                                  user_lists, users).rows # {}
               ELSE /\ ExecSelect(c, "user_lists", r.id, user_lists).rows = {}
                    /\ ExecDelete(c, "user_lists", r.id, user_lists).rows = {}
                    /\ \A set \in AccessListSets :
                          ExecUpdate(c, "user_lists", r.id, set, user_lists, users).rows = {})
    /\ [](\A c \in OrdinaryCallers, p \in profiles, set \in AccessProfileSets :
            c.uid # p.id =>
               ExecUpdate(c, "profiles", p.id, set, profiles, users).rows = {})
    /\ [][ /\ ForeignListWrite(last', user_lists) =>
                (last'.rows = {} /\ user_lists' = user_lists)
           /\ last'.op \in ListOps =>
                \A r \in last'.rows \cup (user_lists \ user_lists') \cup (user_lists' \ user_lists) :
                    last'.role = "authenticated" /\ r.user_id = last'.uid
           /\ last'.op = "update_profile" =>
                \A p \in last'.rows \cup (profiles \ profiles') \cup (profiles' \ profiles) :
                    last'.role = "authenticated" /\ p.id = last'.uid ]_vars

\* C20 witness: another identity has tried to update or delete U's list item,
\* which is still there
C20_Witness ==
    /\ ForeignListWrite(last, user_lists)
    /\ last.role = "authenticated"
    /\ last.uid \in users
    /\ last.rows = {}

-----------------------------------------------------------------------------
(* Claims on the service role (SpecService) *)

\* the outcome the constraints give an insert with the values a into rows
\* holding held on the same key: check, then uniqueness, then the reference
ConstraintOutcome(valid, held, a) ==
    IF ~valid THEN CheckViolation
    ELSE IF held # {} THEN UniqueViolation
    ELSE IF a.user_id \notin users THEN ForeignKeyViolation
    ELSE NoError

ValidReviewValues(a) ==
    a.media_type \in {"movie", "book", "show"} /\ a.rating \in 1 .. 10

ValidListValues(a) ==
    /\ a.media_type \in {"movie", "book", "show"}
    /\ a.list_type \in {"watchlist", "favorites", "reading_list", "completed"}

SameReviewEntry(a, rows) ==
    {r \in rows : /\ r.user_id = a.user_id
                  /\ r.media_type = a.media_type
                  /\ r.media_id = a.media_id}

\* C21: the service role reads, updates and deletes the rows of any owner and
\* inserts rows for any identity, never stopped by a row-level policy; its
\* writes are held to every constraint: one that violates an enumeration or
\* the rating range, a unique key, or the reference to an existing identity
\* is rejected with the constraint's error and changes nothing.
C21_ServiceRoleBoundByConstraints ==
    /\ [][ last'.role = "service_role" =>
             /\ last'.err # InsufficientPrivilege
             /\ last'.err # NoError =>
                   (last'.rows = {} /\ reviews' = reviews /\ user_lists' = user_lists)
             /\ last'.op = "insert_review" =>
                   /\ last'.err = ConstraintOutcome(ValidReviewValues(last'.arg),
                                       SameReviewEntry(last'.arg, reviews), last'.arg)
                   /\ last'.err = NoError => reviews' = reviews \cup last'.rows
             /\ last'.op = "insert_list_item" =>
                   /\ last'.err = ConstraintOutcome(ValidListValues(last'.arg),
                                       SameListEntry(last'.arg, user_lists), last'.arg)
                   /\ last'.err = NoError => user_lists' = user_lists \cup last'.rows
             /\ last'.op = "select_review" =>
                   last'.rows = {r \in reviews : r.id = last'.arg.id}
             /\ last'.op = "select_list_item" =>
                   last'.rows = {r \in user_lists : r.id = last'.arg.id}
             /\ last'.op = "delete_review" =>
                   reviews' = {r \in reviews : r.id # last'.arg.id}
             /\ last'.op = "delete_list_item" =>
                   user_lists' = {r \in user_lists : r.id # last'.arg.id} ]_vars
    /\ [](\A r \in reviews, v \in Ids :
            /\ ExecUpdate(ServiceRole, "reviews", r.id, [rating |-> 0], reviews, users)
                  = Result(CheckViolation, {})
            /\ ExecUpdate(ServiceRole, "reviews", r.id, [media_type |-> "podcast"],
                          reviews, users) = Result(CheckViolation, {})
            /\ ExecUpdate(ServiceRole, "reviews", r.id, [user_id |-> v], reviews, users)
                  = LET n == [r EXCEPT !.user_id = v]
                    IN  IF SameReviewEntry(n, reviews \ {r}) # {}
                           THEN Result(UniqueViolation, {})
                        ELSE IF v \notin users THEN Result(ForeignKeyViolation, {})
                        ELSE Result(NoError, {n}))
    /\ [](\A r \in user_lists, v \in Ids :
            /\ ExecUpdate(ServiceRole, "user_lists", r.id, [list_type |-> "archive"],
                          user_lists, users) = Result(CheckViolation, {})
            /\ ExecUpdate(ServiceRole, "user_lists", r.id, [user_id |-> v],
                          user_lists, users)
                  = LET n == [r EXCEPT !.user_id = v]
                    IN  IF SameListEntry(n, user_lists \ {r}) # {}
                           THEN Result(UniqueViolation, {})
                        ELSE IF v \notin users THEN Result(ForeignKeyViolation, {})
                        ELSE Result(NoError, {n}))
    /\ [](\A r \in reviews \cup user_lists : r.user_id \in users)

\* C21 witness: with reviews of two owners stored, the service role's update
\* that would have put one on the key of the other was rejected
C21_Witness ==
    /\ last.role = "service_role"
    /\ last.op = "update_review"
    /\ last.err = UniqueViolation
    /\ \E r1, r2 \in reviews : r1.user_id # r2.user_id /\ r1.id = last.arg.id

-----------------------------------------------------------------------------
(* Claims on what a non-owner can learn (SpecLists) *)

\* the state of user_lists with the list items of every identity but the
\* caller's taken away
OwnItemsOnly(c, rows) == {r \in rows : r.user_id = c.uid}

\* C22: for every ordinary caller and every target id, a read, an update and
\* a delete give the same result, and leave the caller's own list items the
\* same, in the state as it is and in the state without the list items of
\* the other identities; so a request aimed at another identity's list item
\* has the outcome of a request aimed at no row: no error, no row.
C22_ListItemExistenceHidden ==
    /\ [](\A c \in OrdinaryCallers, i \in RowIds :
            LET own == OwnItemsOnly(c, user_lists)
            IN  /\ ExecSelect(c, "user_lists", i, user_lists)
                      = ExecSelect(c, "user_lists", i, own)
                /\ ExecDelete(c, "user_lists", i, user_lists)
                      = ExecDelete(c, "user_lists", i, own)
                /\ \A set \in ListSets :
                      /\ ExecUpdate(c, "user_lists", i, set, user_lists, users)
                            = ExecUpdate(c, "user_lists", i, set, own, users)
                      /\ OwnItemsOnly(c, AfterUpdate(i, user_lists,
                              ExecUpdate(c, "user_lists", i, set, user_lists, users)))
                            = AfterUpdate(i, own, ExecUpdate(c, "user_lists", i, set, own, users)))
    /\ [][ ( /\ last'.op \in {"select_list_item", "update_list_item", "delete_list_item"}
             /\ last'.role \in OrdinaryRoles
             /\ \A r \in user_lists : r.id = last'.arg.id => r.user_id # last'.uid )
           => /\ last'.err = NoError
              /\ last'.rows = {}
              /\ user_lists' = user_lists ]_vars

\* C22 witness: an identity's delete aimed at another identity's list item
\* completed as one aimed at a free id would: no error, no row
C22_Witness ==
    /\ last.op = "delete_list_item"
    /\ last.role = "authenticated"
    /\ last.uid \in users
    /\ last.err = NoError
    /\ last.rows = {}
    /\ \E r \in user_lists : r.id = last.arg.id /\ r.user_id # last.uid
    /\ RowIds \ UsedIds(user_lists) # {}

-----------------------------------------------------------------------------
(* Claims on provisioning (SpecProfiles) *)

\* an insert of a profile by an existing identity for its own id
OwnProfileInsert(l) ==
    /\ l.op = "insert_profile"
    /\ l.role = "authenticated"
    /\ l.arg.id = l.uid
    /\ l.uid \in users

\* C27: an existing identity's insert of a profile for its own id is not
\* stopped by the policy but fails with UniqueViolation, its profile being
\* there already; no insert by an ordinary caller creates a profile row, and
\* in every state there are as many profiles as identities.
C27_OwnProfileInsertCollides ==
    /\ [](Cardinality(profiles) = Cardinality(users))
    /\ [](\A u \in users, x \in UsernameInputs :
            /\ PolicyPasses(Authenticated(u), "profiles", "INSERT", [id |-> u, username |-> x])
            /\ ExecInsert(Authenticated(u), "profiles", [id |-> u, username |-> x],
                          profiles, users) = Result(UniqueViolation, {}))
    /\ [][ /\ OwnProfileInsert(last') => last'.err = UniqueViolation
           /\ last'.op = "insert_profile" =>
                 (last'.err # NoError /\ last'.rows = {} /\ profiles' = profiles) ]_vars

\* C27 witness: with two identities, one has tried to insert a profile for
\* its own id and got UniqueViolation
C27_Witness ==
    /\ OwnProfileInsert(last)
    /\ last.err = UniqueViolation
    /\ Cardinality(users) = MaxIds

\* some profile of rows holds the set username x
Held(x, rows) == x # Null /\ \E p \in rows : p.username = x

\* C28: the creation of an identity succeeds exactly when the username derived
\* for it is unset or held by no profile at that moment, whoever set the
\* usernames held (the trigger or an owner's update); otherwise it fails with
\* UniqueViolation and changes nothing, no other username being tried; a
\* username no profile holds any more is free for a creation again.
C28_CreationSucceedsIffUsernameFree ==
    /\ [](\A e \in Emails, m \in Metas :
            LET x == DerivedUsername(e, m)
                newId == issued + 1
                res == HandleNewUser(newId, e, m, users \cup {newId}, profiles)
            IN  res = IF Held(x, profiles)
                         THEN Result(UniqueViolation, {})
                         ELSE Result(NoError, {[id |-> newId, username |-> x]}))
    /\ [][ last'.op = "create_identity" =>
             LET x == DerivedUsername(last'.arg.email, last'.arg.meta)
             IN  IF Held(x, profiles)
                    THEN /\ last'.err = UniqueViolation
                         /\ users' = users
                         /\ profiles' = profiles
                    ELSE /\ last'.err = NoError
                         /\ users' = users \cup {last'.uid}
                         /\ profiles' = profiles \cup {[id |-> last'.uid, username |-> x]} ]_vars

\* C28 witness: a creation deriving its username from the email has failed
\* because the only other profile holds that username
C28_Witness ==
    /\ last.op = "create_identity"
    /\ last.err = UniqueViolation
    /\ "username" \notin DOMAIN last.arg.meta
    /\ Cardinality(profiles) = 1
    /\ Held(DerivedUsername(last.arg.email, last.arg.meta), profiles)

\* an identity created with neither a metadata username nor an email
Nameless(l) ==
    /\ l.op = "create_identity"
    /\ l.arg.email = Null
    /\ "username" \notin DOMAIN l.arg.meta

\* C29: the creation of an identity with neither a metadata username nor an
\* email succeeds and its profile has an unset username; such identities
\* never collide with each other or with any profile.
C29_NamelessIdentitiesCoexist ==
    /\ [](\A m \in Metas :
            "username" \notin DOMAIN m =>
                LET newId == issued + 1
                IN  HandleNewUser(newId, Null, m, users \cup {newId}, profiles)
                       = Result(NoError, {[id |-> newId, username |-> Null]}))
    /\ [][ Nameless(last') =>
             /\ last'.err = NoError
             /\ users' = users \cup {last'.uid}
             /\ profiles' = profiles \cup {[id |-> last'.uid, username |-> Null]} ]_vars

\* C29 witness: a second identity with neither username nor email has been
\* created while the first one's profile still has an unset username
C29_Witness ==
    /\ Nameless(last)
    /\ last.err = NoError
    /\ \E p, q \in profiles : p.id # q.id /\ p.username = Null /\ q.username = Null

-----------------------------------------------------------------------------
(* Claims on the recommendations page (SpecRecommend) *)

\* C23: a request to the recommendation endpoint leaves only when at least
\* three entries have a non-blank title and no earlier recommendation request
\* is in flight, by whichever button getRecommendations is started.
\* (Violated: the Retry button is never disabled and getRecommendations checks
\* nothing.)
C23_RequestOnlyWhenReady ==
    [][ recsInFlight' > recsInFlight => (hasMinimumMovies /\ recsInFlight = 0) ]_vars

\* C24: the movie entries have pairwise distinct ids.
\* (Violated: a new entry gets the id Len(movies) + 1, which an entry may hold
\* after a removal.)
C24_MovieIdsDistinct ==
    \A i, j \in DOMAIN movies : movies[i].id = movies[j].id => i = j

-----------------------------------------------------------------------------
(* Claims on the review form and the book page (SpecForms) *)

\* the request sent last creates a review
ReviewSent == sent.url = "/api/user/reviews"

\* C25: every review-creation request of the form carries a media_type the
\* reviews table accepts (movie, book or show), whichever item was selected
\* or linked: a movie, a TV show, a book.
\* (Violated: a TV show is tagged tv by the search and by the detail page,
\* and the form sends the tag as it is.)
C25_MediaTypeAccepted ==
    ReviewSent => sent.body.media_type \in {"movie", "book", "show"}

\* C26: every review-creation request of the form carries a rating in 1..10:
\* a request leaves only when 1 to 5 stars are selected, never with none, and
\* the rating sent is twice the number of stars.
C26_RatingSentInRange ==
    /\ [](ReviewSent => sent.body.rating \in 1 .. 10)
    /\ [][ reviewInFlight' > reviewInFlight =>
             /\ rating \in 1 .. 5
             /\ ReviewSent'
             /\ sent'.body.rating = 2 * rating ]_vars

\* C26 witness: a review with five stars has been sent with rating 10
C26_Witness ==
    /\ ReviewSent
    /\ reviewInFlight = 1
    /\ rating = 5
    /\ sent.body.rating = 10

\* a user and a session with a non-empty access token are present
Credentials == user # Null /\ session # Null /\ Val(session).access_token # ""

\* a request leaves in this step
Sends ==
    \/ sent' # sent
    \/ reviewInFlight' > reviewInFlight
    \/ \E lt \in BookListTypes : listInFlight'[lt] > listInFlight[lt]

\* C30: the review form's submit and the book page's add-to-list send their
\* request only when a signed-in user and a session access token are present,
\* with that token; without them a click sends nothing and sets the page's
\* error message.
C30_NoWriteWithoutCredentials ==
    /\ []((sent.url \in {"/api/user/reviews", "/api/user/lists"}) => sent.token # "")
    /\ [][ Sends => (Credentials /\ sent'.token = Val(session).access_token) ]_vars
    /\ [][ (ClickSubmit /\ ~Credentials) => (~Sends /\ error' # Null) ]_vars
    /\ [][ \A lt \in BookListTypes :
             (ClickAddToList(lt) /\ ~Credentials) => (~Sends /\ actionError' # Null) ]_vars

\* C30 witness: with a user but a session whose access token is empty, a click
\* on the submit button has sent nothing and set the sign-in message
C30_Witness ==
    /\ user # Null
    /\ session # Null
    /\ ~Credentials
    /\ rating # 0
    /\ media # Null
    /\ error = Some("Please sign in to submit a review")
    /\ sent = NoRequest
====
